---------------------------- MODULE Spec2Model ----------------------------
(***************************************************************************)
(* A model of the crypto-analyzer pipeline:                                *)
(*   fetchers/binance.py, fetchers/okx.py  kline normalization             *)
(*   indicators.py                         calculate_indicators            *)
(*   volatility_analysis.py                calculate_volatility_regime,    *)
(*                                         detect_volatility_expansion_    *)
(*                                         signals                         *)
(*   json_summary.py                       latest_kline, summarize         *)
(*   scripts/market_snapshot.py            build_summary, save_snapshot    *)
(*   storage.py                            build_output_path, save_json    *)
(*   rate_limiter.py                       AsyncConcurrencyLimiter         *)
(*   scripts/crypto_fetcher.py             collect_snapshot_async, main,   *)
(*                                         _async_main, _run_full_task     *)
(*                                                                         *)
(* Numbers.  Python floats are modelled by exact fixed-point integers:     *)
(*   prices, volumes (open/high/low/close/volume)   unit 1                 *)
(*   ma20, ma50, price_change, atr14                unit 10^-8 (round(,8)) *)
(*   price_change_pct, atr14_pct                    unit 10^-4 (round(,4)) *)
(*   rsi14, volatility_percentile                   unit 10^-2 (round(,2)) *)
(* and Python's round() by round-half-to-even on the exact quotient.       *)
(* A numeric string of a raw payload is represented by the number it       *)
(* denotes.  A dict is a TLA+ function on its keys, so "key in d" is       *)
(* "key \in DOMAIN d".                                                     *)
(***************************************************************************)
EXTENDS Integers, Sequences, FiniteSets, TLC

VARIABLES
    stage,        \* "call" before the modelled function runs, "return" after
    exchange,     \* "binance" | "okx" | "none"
    symbol,       \* the symbol argument of the fetch
    raw_klines,   \* the upstream payload: a sequence of raw entries
    normalized,   \* what the kline fetch returned: a sequence, or ValueError
    records,      \* the argument of calculate_indicators
    result,       \* what calculate_indicators returned (or the exception)
    klines,       \* the argument of calculate_volatility_regime
    lookback,     \* its lookback argument
    vol_analysis, \* the dict calculate_volatility_regime returned
    payload,      \* the JSON payload json_summary.main loads (data)
    report,       \* the dict detect_volatility_expansion_signals returned
    summary,      \* what summarize returned (or the exception)
    tickers,      \* the filtered tickers market_snapshot.build_summary is given
    top_n,        \* its top argument (--top)
    snapshot,     \* the summary dict build_summary returned
    files,        \* the output tree: path -> content of each JSON file
    limiter,      \* the AsyncConcurrencyLimiter of the upstream: its fields
    position,     \* where each fetch coroutine stands
    upstream,     \* the exchange side: time since its last admitted request
    jobs,         \* the (symbol, interval) tasks of a batch run: their state
    outcome       \* how crypto_fetcher.main ended

vars == <<stage, exchange, symbol, raw_klines, normalized, records, result,
          klines, lookback, vol_analysis, payload, report, summary,
          tickers, top_n, snapshot, files, limiter, position, upstream, jobs, outcome>>

\* The variables of the market snapshot, the storage and the fetch run.
run_vars == <<tickers, top_n, snapshot, files, limiter, position, upstream, jobs, outcome>>

\* Their values while none of these runs.
NoRun ==
    /\ tickers = <<>> /\ top_n = 0 /\ snapshot = <<>> /\ files = <<>>
    /\ limiter = <<>> /\ position = <<>> /\ upstream = <<>> /\ jobs = <<>> /\ outcome = <<>>

(***************************************************************************)
(* Generic helpers                                                         *)
(***************************************************************************)
\* A dict without keys; a payload key or snapshot that is absent (None).
NoKeys == [k \in {} |-> 0]

Abs(x) == IF x < 0 THEN -x ELSE x

Max2(a, b) == IF a >= b THEN a ELSE b

Min2(a, b) == IF a <= b THEN a ELSE b

\* Python indexes from 0: At(s, i) is s[i].
At(s, i) == s[i + 1]

\* Python's s[a : b] for 0 <= a <= b <= len(s).
Slice(s, a, b) == SubSeq(s, a + 1, b)

RECURSIVE SumSeq(_)
SumSeq(s) == IF s = <<>> THEN 0 ELSE Head(s) + SumSeq(Tail(s))

Reverse(s) == [k \in 1..Len(s) |-> s[Len(s) + 1 - k]]

\* round-half-to-even of num/den to an integer, den > 0 (floor division and
\* a non-negative remainder, so the rule is the same for negative num).
RoundHalfEven(num, den) ==
    LET q == num \div den
        r == num % den
    IN  IF 2 * r > den THEN q + 1
        ELSE IF 2 * r < den THEN q
        ELSE IF q % 2 = 0 THEN q ELSE q + 1

\* round(num/den, 8) in units of 10^-8, by long division in two steps of
\* four digits so that every intermediate stays within 32 bits
\* (|num/den| < 21, den < 200000).
Round8(num, den) ==
    LET q  == num \div den
        r  == num % den
        f1 == (r * 10000) \div den
        r1 == (r * 10000) % den
    IN  q * 100000000 + f1 * 10000 + RoundHalfEven(r1 * 10000, den)

(***************************************************************************)
(* Kline normalization: fetch_binance_klines_async, fetch_okx_klines_async *)
(***************************************************************************)
MaxPayload == 3
MaxTime == 3

BinanceMinFields == 9
OkxMinFields == 8

ValueError == "ValueError"

\* What a call produced: a returned value, or the exception it raised (the
\* statement that raised it in "at"; nothing is returned then).
Ret(v) == [raised |-> "none", at |-> "", value |-> v]

Raise(exc, where) == [raised |-> exc, at |-> where, value |-> <<>>]

Symbols == {"btcusdt", "BTCUSDT"}

\* str.upper() on the symbols of the model.
Upper(s) == IF s = "btcusdt" THEN "BTCUSDT" ELSE s

\* A raw entry as the upstream sends it: a JSON list of positional fields
\* (open time first), or something that is not a list.
NotAList == [is_list |-> FALSE, fields |-> <<>>]

RawFields(t) == <<t, 10 + t, 12 + t, 9 + t, 11 + t, 100 + t, t + 1, 200 + t, 50 + t>>

MkEntry(t, n) == [is_list |-> TRUE, fields |-> SubSeq(RawFields(t), 1, n)]

RawEntries ==
    {MkEntry(t, n) : t \in 1..MaxTime, n \in (OkxMinFields - 1)..BinanceMinFields}
        \cup {NotAList}

Payloads == UNION {[1..n -> RawEntries] : n \in 0..MaxPayload}

BinanceMalformed(entry) == ~entry.is_list \/ Len(entry.fields) < BinanceMinFields

OkxMalformed(entry) == ~entry.is_list \/ Len(entry.fields) < OkxMinFields

BinanceCandle(sym, entry) ==
    [symbol       |-> Upper(sym),
     open_time    |-> At(entry.fields, 0),
     open         |-> At(entry.fields, 1),
     high         |-> At(entry.fields, 2),
     low          |-> At(entry.fields, 3),
     close        |-> At(entry.fields, 4),
     volume       |-> At(entry.fields, 5),
     close_time   |-> At(entry.fields, 6),
     quote_volume |-> At(entry.fields, 7),
     trades       |-> At(entry.fields, 8)]

OkxCandle(sym, entry) ==
    [symbol       |-> Upper(sym),
     open_time    |-> At(entry.fields, 0),
     open         |-> At(entry.fields, 1),
     high         |-> At(entry.fields, 2),
     low          |-> At(entry.fields, 3),
     close        |-> At(entry.fields, 4),
     volume       |-> At(entry.fields, 5),
     close_time   |-> At(entry.fields, 0) + 1,
     quote_volume |-> At(entry.fields, 6),
     trades       |-> At(entry.fields, 7)]

\* Binance without the final normalized.reverse().
BinanceOrderKeepNative(seq) == seq

\* normalized.reverse(): Binance sends oldest first.
BinanceOrder(seq) == Reverse(seq)

\* OKX sends newest first: the list is returned as built.
OkxOrder(seq) == seq

\* The loop that drops a malformed entry instead of raising.
NormalizeBinanceSkipBad(sym, raw) ==
    LET good == SelectSeq(raw, LAMBDA e : ~BinanceMalformed(e))
    IN  Ret(BinanceOrder([k \in 1..Len(good) |-> BinanceCandle(sym, good[k])]))

\* The loop of fetch_binance_klines_async: the first malformed entry raises
\* ValueError out of the function, so nothing is returned.
NormalizeBinance(sym, raw) ==
    IF \E k \in 1..Len(raw) : BinanceMalformed(raw[k])
    THEN Raise(ValueError, "entry")
    ELSE Ret(BinanceOrder([k \in 1..Len(raw) |-> BinanceCandle(sym, raw[k])]))

NormalizeOkx(sym, raw) ==
    IF \E k \in 1..Len(raw) : OkxMalformed(raw[k])
    THEN Raise(ValueError, "entry")
    ELSE Ret(OkxOrder([k \in 1..Len(raw) |-> OkxCandle(sym, raw[k])]))

InitNorm ==
    /\ stage = "call"
    /\ exchange \in {"binance", "okx"}
    /\ symbol \in Symbols
    /\ raw_klines \in Payloads
    /\ normalized = Ret(<<>>)
    /\ records = <<>>
    /\ result = Ret(<<>>)
    /\ klines = <<>>
    /\ lookback = 0
    /\ vol_analysis = [status |-> "none"]
    /\ payload = NoKeys
    /\ report = [status |-> "none"]
    /\ summary = Ret(NoKeys)
    /\ NoRun

FetchBinanceKlines ==
    /\ stage = "call"
    /\ exchange = "binance"
    /\ normalized' = NormalizeBinance(symbol, raw_klines)
    /\ stage' = "return"
    /\ UNCHANGED <<exchange, symbol, raw_klines, records, result, klines,
                   lookback, vol_analysis>>
    /\ UNCHANGED <<payload, report, summary>>
    /\ UNCHANGED run_vars

FetchOkxKlines ==
    /\ stage = "call"
    /\ exchange = "okx"
    /\ normalized' = NormalizeOkx(symbol, raw_klines)
    /\ stage' = "return"
    /\ UNCHANGED <<exchange, symbol, raw_klines, records, result, klines,
                   lookback, vol_analysis>>
    /\ UNCHANGED <<payload, report, summary>>
    /\ UNCHANGED run_vars

NextNorm == FetchBinanceKlines \/ FetchOkxKlines

SpecNorm == InitNorm /\ [][NextNorm]_vars

(***************************************************************************)
(* Claims about kline normalization (checked under SpecNorm)               *)
(***************************************************************************)
WellFormedFor(ex, raw) ==
    \A k \in 1..Len(raw) :
        IF ex = "binance" THEN ~BinanceMalformed(raw[k]) ELSE ~OkxMalformed(raw[k])

RawTime(entry) == At(entry.fields, 0)

\* The upstream's own order with distinct open times: Binance oldest first,
\* OKX newest first.
NativeOrder(ex, raw) ==
    \A k \in 1..(Len(raw) - 1) :
        IF ex = "binance" THEN RawTime(raw[k]) < RawTime(raw[k + 1])
                          ELSE RawTime(raw[k]) > RawTime(raw[k + 1])

CandleOfEntry(candle, entry) ==
    /\ candle.open_time = At(entry.fields, 0)
    /\ candle.open = At(entry.fields, 1)
    /\ candle.high = At(entry.fields, 2)
    /\ candle.low = At(entry.fields, 3)
    /\ candle.close = At(entry.fields, 4)
    /\ candle.volume = At(entry.fields, 5)

\* C1: a well-formed payload in the upstream's native order (Binance oldest
\* first, OKX newest first, distinct open times) is returned most recent
\* first: strictly decreasing open_time, as many candles as entries, and every
\* entry is the source of exactly one candle.
C1_NormalizedMostRecentFirst ==
    (stage = "return" /\ WellFormedFor(exchange, raw_klines)
        /\ NativeOrder(exchange, raw_klines)) =>
        /\ normalized.raised = "none"
        /\ Len(normalized.value) = Len(raw_klines)
        /\ \A k \in 1..(Len(normalized.value) - 1) :
              normalized.value[k].open_time > normalized.value[k + 1].open_time
        /\ \A k \in 1..Len(raw_klines) :
              Cardinality({j \in 1..Len(normalized.value) :
                              CandleOfEntry(normalized.value[j], raw_klines[k])}) = 1

C1_Witness ==
    /\ stage = "return"
    /\ exchange = "binance"
    /\ Len(raw_klines) = MaxPayload
    /\ WellFormedFor(exchange, raw_klines)
    /\ NativeOrder(exchange, raw_klines)
    /\ normalized.raised = "none"
    /\ normalized.value[1].open_time = RawTime(raw_klines[MaxPayload])

\* C7: a payload holding a malformed entry (not a list, or fewer than 9
\* fields for Binance, fewer than 8 for OKX) at any position makes the fetch
\* raise ValueError; no candle is returned, in particular not the list with
\* the bad entry left out.
C7_MalformedEntryFailsWholePayload ==
    (stage = "return" /\ ~WellFormedFor(exchange, raw_klines)) =>
        /\ normalized.raised = ValueError
        /\ normalized.value = <<>>

C7_Witness ==
    /\ stage = "return"
    /\ exchange = "okx"
    /\ Len(raw_klines) = MaxPayload
    /\ \A k \in 1..(MaxPayload - 1) : ~OkxMalformed(raw_klines[k])
    /\ raw_klines[MaxPayload].is_list
    /\ Len(raw_klines[MaxPayload].fields) = OkxMinFields - 1
    /\ normalized.raised = ValueError

(***************************************************************************)
(* Indicator Engine: calculate_indicators                                  *)
(***************************************************************************)
MaxCandles == 51

Ma20Window == 20
Ma50Window == 50
RsiPeriod == 14
AtrPeriod == 14
VolWindow == 20

ZeroDivisionError == "ZeroDivisionError"

\* d[key] = val when cond, as in "if cond: enriched[key] = val".
Put(d, cond, key, val) == IF cond THEN (key :> val) @@ d ELSE d

\* closes = [r["close"] for r in records]
Closes(recs) == [k \in 1..Len(recs) |-> recs[k].close]

\* round(sum(closes[i - (w-1) : i + 1]) / w, 8)
MovingAverage(closes, i, w) == Round8(SumSeq(Slice(closes, i - (w - 1), i + 1)), w)

\* The changes between neighbours of period_closes, in list order.
Changes(pc) == [j \in 1..(Len(pc) - 1) |-> pc[j + 1] - pc[j]]

\* sum(gains): a change > 0 is a gain, any other change adds 0.0.
SumGains(pc) == SumSeq([j \in 1..(Len(pc) - 1) |->
                          IF Changes(pc)[j] > 0 THEN Changes(pc)[j] ELSE 0])

\* sum(losses): a change <= 0 is a loss of abs(change).
SumLosses(pc) == SumSeq([j \in 1..(Len(pc) - 1) |->
                           IF Changes(pc)[j] > 0 THEN 0 ELSE Abs(Changes(pc)[j])])

\* rs = avg_gain / avg_loss; round(100 - (100 / (1 + rs)), 2), with
\* avg_gain = g/14 and avg_loss = l/14 as exact fractions: rs = g/l,
\* 1 + rs = (l + g)/l, 100/(1 + rs) = 100*l/(l + g).  The division by
\* avg_loss raises ZeroDivisionError when avg_loss is 0.
RsiFromAverages(g, l) ==
    IF l = 0
    THEN Raise(ZeroDivisionError, "rsi14")
    ELSE Ret(RoundHalfEven(100 * (100 * (l + g) - 100 * l), l + g))

\* The RSI block without its "if avg_loss == 0" guard.
Rsi14NoGuard(closes, i) ==
    LET period_closes == Slice(closes, i - RsiPeriod, i + 1)
    IN  RsiFromAverages(SumGains(period_closes), SumLosses(period_closes))

\* indicators.py lines 24-42, for i >= 14.
Rsi14(closes, i) ==
    LET period_closes == Slice(closes, i - RsiPeriod, i + 1)
        g == SumGains(period_closes)
        l == SumLosses(period_closes)
    IN  IF l = 0 THEN Ret(10000) ELSE RsiFromAverages(g, l)

\* round(price_change, 8), for i > 0
PriceChange(recs, i) == Round8(At(recs, i).close - At(recs, i - 1).close, 1)

\* round((price_change / prev_close) * 100, 4), for i > 0; the division
\* raises ZeroDivisionError when prev_close is 0.
PriceChangePct(recs, i) ==
    LET prev_close == At(recs, i - 1).close
        price_change == At(recs, i).close - prev_close
    IN  IF prev_close = 0
        THEN Raise(ZeroDivisionError, "price_change_pct")
        ELSE IF prev_close > 0
        THEN Ret(RoundHalfEven(price_change * 1000000, prev_close))
        ELSE Ret(RoundHalfEven(-price_change * 1000000, -prev_close))

\* The true range of candle j (lines 56-66).
TrueRange(recs, j) ==
    LET high == At(recs, j).high
        low == At(recs, j).low
    IN  IF j > 0
        THEN LET prev_close == At(recs, j - 1).close
             IN  Max2(high - low, Max2(Abs(high - prev_close), Abs(low - prev_close)))
        ELSE high - low

\* true_ranges, for j in range(max(1, i - 13), i + 1)
TrueRanges(recs, i) ==
    LET first == Max2(1, i - (AtrPeriod - 1))
    IN  [k \in 1..(i + 1 - first) |-> TrueRange(recs, first + k - 1)]

\* round(sum(true_ranges) / len(true_ranges), 8), for i >= 14
Atr14(recs, i) == Round8(SumSeq(TrueRanges(recs, i)), Len(TrueRanges(recs, i)))

\* The guard of line 70 taken as "close >= 0".
AtrPctGuardNonNegative(close) == close >= 0

\* if record["close"] > 0
AtrPctGuard(close) == close > 0

\* round((enriched["atr14"] / record["close"]) * 100, 4): atr14 is in
\* units of 10^-8, the result in units of 10^-4.
Atr14Pct(atr14, close) ==
    IF close = 0
    THEN Raise(ZeroDivisionError, "atr14_pct")
    ELSE IF close > 0
    THEN Ret(RoundHalfEven(atr14, close * 100))
    ELSE Ret(RoundHalfEven(-atr14, -close * 100))

\* floor(sqrt(m)) by bisection on lo..hi, lo*lo <= m < (hi+1)*(hi+1)
RECURSIVE ISqrtIn(_, _, _)
ISqrtIn(m, lo, hi) ==
    IF lo = hi THEN lo
    ELSE LET mid == (lo + hi + 1) \div 2
         IN  IF mid * mid <= m THEN ISqrtIn(m, mid, hi) ELSE ISqrtIn(m, lo, mid - 1)

\* The integer nearest to sqrt(m), for 0 <= m < 2^30.
SqrtNearest(m) ==
    LET s == ISqrtIn(m, 0, 32767)
    IN  IF m > s * s + s THEN s + 1 ELSE s

\* 400 * variance of the period closes: with mean = S/20 the population
\* variance sum((x - mean)^2)/20 is (20*sum(x^2) - S^2)/400.
Variance400(pc) ==
    VolWindow * SumSeq([k \in 1..Len(pc) |-> pc[k] * pc[k]]) - SumSeq(pc) * SumSeq(pc)

\* round(math.sqrt(variance), 8) with sqrt(variance) = sqrt(Variance400)/20,
\* in units of 10^-8.  The square root itself is carried to two decimals
\* only (32-bit integers): the value of volatility_20 and of
\* volatility_20_pct is approximate in the model, the presence of the two
\* fields is exact.
Volatility20(closes, i) ==
    SqrtNearest(25 * Variance400(Slice(closes, i - (VolWindow - 1), i + 1))) * 1000000

\* round((std_dev / mean) * 100, 4) in units of 10^-4, for mean = S/20 > 0
Volatility20Pct(closes, i) ==
    RoundHalfEven((Volatility20(closes, i) \div 1000000) * 10000 * VolWindow,
                  SumSeq(Slice(closes, i - (VolWindow - 1), i + 1)))

\* One pass of the loop body for index i, every division succeeding: the
\* enriched copy of records[i].
Enriched(recs, closes, i) ==
    LET record == At(recs, i)
        e1 == Put(record, i >= Ma20Window - 1, "ma20", MovingAverage(closes, i, Ma20Window))
        e2 == Put(e1, i >= Ma50Window - 1, "ma50", MovingAverage(closes, i, Ma50Window))
        e3 == Put(e2, i >= RsiPeriod, "rsi14", Rsi14(closes, i).value)
        e4 == Put(e3, i > 0, "price_change", PriceChange(recs, i))
        e5 == Put(e4, i > 0, "price_change_pct", PriceChangePct(recs, i).value)
        e6 == Put(e5, i >= AtrPeriod, "atr14", Atr14(recs, i))
        e7 == Put(e6, i >= AtrPeriod /\ AtrPctGuard(record.close), "atr14_pct",
                  Atr14Pct(Atr14(recs, i), record.close).value)
        e8 == Put(e7, i >= VolWindow - 1, "volatility_20", Volatility20(closes, i))
        e9 == Put(e8, i >= VolWindow - 1
                        /\ SumSeq(Slice(closes, i - (VolWindow - 1), i + 1)) > 0,
                  "volatility_20_pct", Volatility20Pct(closes, i))
    IN  e9

\* The exception the loop body raises at index i, in statement order (RSI,
\* price change, ATR percentage), or Ret(<<>>) when it raises none.
BodyRaises(recs, closes, i) ==
    IF i >= RsiPeriod /\ Rsi14(closes, i).raised # "none"
    THEN Rsi14(closes, i)
    ELSE IF i > 0 /\ PriceChangePct(recs, i).raised # "none"
    THEN PriceChangePct(recs, i)
    ELSE IF i >= AtrPeriod /\ AtrPctGuard(At(recs, i).close)
              /\ Atr14Pct(0, At(recs, i).close).raised # "none"
    THEN Atr14Pct(0, At(recs, i).close)
    ELSE Ret(<<>>)

\* calculate_indicators: an empty list is returned as it is; otherwise the
\* loop runs in index order and the first exception leaves the function.
CalculateIndicatorsOf(recs) ==
    IF recs = <<>> THEN Ret(recs)
    ELSE LET closes == Closes(recs)
             bad == {i \in 0..(Len(recs) - 1) : BodyRaises(recs, closes, i).raised # "none"}
         IN  IF bad # {}
             THEN BodyRaises(recs, closes, CHOOSE i \in bad : \A j \in bad : i <= j)
             ELSE Ret([k \in 1..Len(recs) |-> Enriched(recs, closes, k - 1)])

\* Enriching the input dicts themselves instead of copies of them.
RecordsAfterInPlace(recs, out) == IF out.raised = "none" THEN out.value ELSE recs

\* The caller's list after the call: enriched = record.copy() leaves every
\* input dict as it was.
RecordsAfter(recs, out) == recs

\* The candle sequences the engine is run on: lengths around the window
\* sizes; closes that are constant, rise, fall or oscillate along the list;
\* optionally one close replaced (by 0 or by a spike) at any position; in
\* either storage order.
IndicatorLengths == {0, 1, 2, RsiPeriod, RsiPeriod + 1, Ma20Window, Ma20Window + 1,
                     Ma50Window, MaxCandles}

Shapes == {"flat", "rising", "falling", "zigzag"}

Orders == {"newest_first", "oldest_first"}

ReplacedCloses == {0, 15}

ShapeClose(shape, k) ==
    CASE shape = "flat" -> 10
      [] shape = "rising" -> 1 + (k \div 3)
      [] shape = "falling" -> 19 - (k \div 3)
      [] OTHER -> 10 + ((k * k) % 4)

\* The candle at list index k of a sequence of n: position p (p < n) holds
\* the replaced close v, p = n means no close is replaced.
MkCandle(n, shape, order, p, v, k) ==
    LET close == IF k = p THEN v ELSE ShapeClose(shape, k)
        spread == IF shape = "flat" THEN 0 ELSE 1 + (k % 2)
    IN  [symbol    |-> "BTCUSDT",
         open_time |-> IF order = "newest_first" THEN n - k ELSE k + 1,
         open      |-> close,
         high      |-> close + spread,
         low       |-> Max2(0, close - (spread \div 2)),
         close     |-> close,
         volume    |-> 100 + k]

CandleSequences ==
    {[k \in 1..n |-> MkCandle(n, shape, order, p, v, k - 1)] :
        <<n, shape, order>> \in IndicatorLengths \X Shapes \X Orders,
        <<p, v>> \in (0..MaxCandles) \X ReplacedCloses}

InitInd ==
    /\ stage = "call"
    /\ exchange = "none"
    /\ symbol = "BTCUSDT"
    /\ raw_klines = <<>>
    /\ normalized = Ret(<<>>)
    /\ records \in CandleSequences
    /\ result = Ret(<<>>)
    /\ klines = <<>>
    /\ lookback = 0
    /\ vol_analysis = [status |-> "none"]
    /\ payload = NoKeys
    /\ report = [status |-> "none"]
    /\ summary = Ret(NoKeys)
    /\ NoRun

CalculateIndicators ==
    /\ stage = "call"
    /\ result' = CalculateIndicatorsOf(records)
    /\ records' = RecordsAfter(records, result')
    /\ stage' = "return"
    /\ UNCHANGED <<exchange, symbol, raw_klines, normalized, klines, lookback,
                   vol_analysis>>
    /\ UNCHANGED <<payload, report, summary>>
    /\ UNCHANGED run_vars

NextInd == CalculateIndicators

SpecInd == InitInd /\ [][NextInd]_vars

(***************************************************************************)
(* Claims about the Indicator Engine (checked under SpecInd)               *)
(***************************************************************************)
Has(d, key) == key \in DOMAIN d

Returned == stage = "return" /\ result.raised = "none"

\* Stored most recent first: strictly decreasing open_time along the list.
MostRecentFirst(recs) ==
    \A k \in 1..(Len(recs) - 1) : recs[k].open_time > recs[k + 1].open_time

\* In a most-recent-first list of n candles, list index i is chronological
\* index n - 1 - i (0 = oldest), and the candle d steps older than list
\* index i is list index i + d.
ChronIndex(n, i) == n - 1 - i

\* The sum of the closes of list index i and its w - 1 chronological
\* predecessors, in a most-recent-first list.
TrailingCloseSum(recs, i, w) == SumSeq([d \in 1..w |-> At(recs, i + d - 1).close])

MaChronological(recs, out, i, key, w) ==
    LET c == ChronIndex(Len(recs), i)
    IN  /\ Has(At(out, i), key) <=> c >= w - 1
        /\ c >= w - 1 => At(out, i)[key] = Round8(TrailingCloseSum(recs, i, w), w)

\* C2: for a most-recent-first sequence of at least 50 candles, ma20 (ma50)
\* is carried by exactly the candles of chronological index >= 19 (>= 49)
\* and is the mean of the closes of the candle and its 19 (49) chronological
\* predecessors; the most recent candle carries both.
C2_MovingAveragesChronological ==
    (Returned /\ Len(records) >= Ma50Window /\ MostRecentFirst(records)) =>
        /\ \A i \in 0..(Len(records) - 1) :
              /\ MaChronological(records, result.value, i, "ma20", Ma20Window)
              /\ MaChronological(records, result.value, i, "ma50", Ma50Window)
        /\ Has(At(result.value, 0), "ma20")
        /\ Has(At(result.value, 0), "ma50")

\* C3: in a most-recent-first sequence price_change and price_change_pct of
\* a candle are taken against the close of its chronological predecessor
\* (the next list element), and only the chronologically oldest candle (the
\* last list element) lacks the two fields.
C3_PriceChangeVersusPredecessor ==
    (Returned /\ Len(records) >= 1 /\ MostRecentFirst(records)) =>
        \A i \in 0..(Len(records) - 1) :
            LET e == At(result.value, i)
                oldest == ChronIndex(Len(records), i) = 0
            IN  /\ Has(e, "price_change") <=> ~oldest
                /\ Has(e, "price_change_pct") <=> ~oldest
                /\ ~oldest =>
                      LET prev == At(records, i + 1).close
                          change == At(records, i).close - prev
                      IN  /\ e.price_change = Round8(change, 1)
                          /\ prev > 0 =>
                                e.price_change_pct = RoundHalfEven(change * 1000000, prev)

NonDecreasing(s) == \A k \in 1..(Len(s) - 1) : s[k] <= s[k + 1]

\* C4: no RSI window divides by zero, every rsi14 returned lies in [0, 100]
\* (0..10000 hundredths), and a candle whose 15-close window (the closes
\* closes[i-14 .. i] the engine reads, in list order) never decreases has
\* rsi14 = 100.0 exactly.
C4_RsiBounded ==
    stage = "return" =>
        /\ result.at # "rsi14"
        /\ result.raised = "none" =>
              \A i \in 0..(Len(records) - 1) :
                  LET e == At(result.value, i)
                  IN  Has(e, "rsi14") =>
                          /\ 0 <= e.rsi14 /\ e.rsi14 <= 10000
                          /\ NonDecreasing(Slice(Closes(records), i - RsiPeriod, i + 1))
                                => e.rsi14 = 10000

C4_Witness ==
    /\ Returned
    /\ Len(records) = RsiPeriod + 1
    /\ NonDecreasing(Closes(records))
    /\ records[1].close < records[RsiPeriod + 1].close
    /\ result.value[RsiPeriod + 1].rsi14 = 10000

FlatSeries(recs) ==
    \A k \in 1..Len(recs) :
        /\ recs[k].close = recs[1].close
        /\ recs[k].high = recs[k].close
        /\ recs[k].low = recs[k].close

\* C5: every atr14 returned is >= 0; on a flat series (high = low = close =
\* one constant) every atr14 is 0; a candle carries atr14_pct exactly when it
\* carries atr14 and its close is > 0, and the percentage is never computed
\* with a zero close.
C5_AtrNonNegative ==
    stage = "return" =>
        /\ result.at # "atr14_pct"
        /\ result.raised = "none" =>
              \A i \in 0..(Len(records) - 1) :
                  LET e == At(result.value, i)
                  IN  /\ Has(e, "atr14") => e.atr14 >= 0
                      /\ (FlatSeries(records) /\ Has(e, "atr14")) => e.atr14 = 0
                      /\ Has(e, "atr14_pct") <=> (Has(e, "atr14") /\ e.close > 0)

C5_Witness ==
    /\ Returned
    /\ Len(records) = Ma20Window
    /\ records[Ma20Window].close = 0
    /\ Has(result.value[Ma20Window], "atr14")
    /\ result.value[Ma20Window].atr14 > 0
    /\ ~Has(result.value[Ma20Window], "atr14_pct")
    /\ Has(result.value[Ma20Window - 1], "atr14_pct")

BaseFields == {"symbol", "open_time", "open", "high", "low", "close", "volume"}

\* C6: the call returns as many elements as it was given, the k-th with the
\* base fields of the k-th input candle, and the input candles are what they
\* were before the call (no derived field appears on an input record).
C6_SameLengthInputUntouched ==
    [][(stage = "call" /\ stage' = "return") =>
          /\ records' = records
          /\ result'.raised = "none" =>
                /\ Len(result'.value) = Len(records)
                /\ \A k \in 1..Len(records) :
                      \A f \in BaseFields : result'.value[k][f] = records[k][f]]_vars

C6_Witness ==
    /\ Returned
    /\ Len(records) = MaxCandles
    /\ Has(result.value[MaxCandles], "ma50")
    /\ \A k \in 1..MaxCandles : DOMAIN records[k] = BaseFields

(***************************************************************************)
(* Volatility Regime Classifier: calculate_volatility_regime               *)
(***************************************************************************)
MaxKlines == 5
MaxLookback == 3

TrendSpan == 5

\* The candles the classifier is run on carry each proxy field or not; a
\* field that is present holds a number (units of 10^-4), as
\* calculate_indicators writes it.
NoFields == [symbol |-> "BTCUSDT"]

ProxyCandles ==
    {NoFields,
     ("volatility_20_pct" :> 7) @@ NoFields,
     ("atr14_pct" :> 1) @@ NoFields,
     ("atr14_pct" :> 7) @@ NoFields,
     ("atr14_pct" :> 13) @@ NoFields,
     ("atr14_pct" :> 13) @@ ("volatility_20_pct" :> 7) @@ NoFields}

\* klines[-n:] for n >= 1
LastN(s, n) == IF Len(s) <= n THEN s ELSE SubSeq(s, Len(s) - n + 1, Len(s))

\* The key choice with volatility_20_pct taken first.
VolatilityKeyStdFirst(latest) ==
    IF "volatility_20_pct" \in DOMAIN latest THEN "volatility_20_pct" ELSE "atr14_pct"

\* volatility_key = "atr14_pct" if "atr14_pct" in latest else "volatility_20_pct"
VolatilityKey(latest) ==
    IF "atr14_pct" \in DOMAIN latest THEN "atr14_pct" ELSE "volatility_20_pct"

\* [k.get(key, 0) for k in window if k.get(key) is not None]
ProxyValues(window, key) ==
    LET with == SelectSeq(window, LAMBDA k : key \in DOMAIN k)
    IN  [j \in 1..Len(with) |-> with[j][key]]

CountAtMost(vals, x) == Cardinality({j \in 1..Len(vals) : vals[j] <= x})

\* The percentile with the count divided by the lookback.
PercentileOverLookback(historical_vol, current_vol, n) ==
    RoundHalfEven(CountAtMost(historical_vol, current_vol) * 10000, n)

\* round((sum(1 for v in sorted_vol if v <= current_vol) / len(sorted_vol))
\* * 100, 2), in units of 10^-2; n is the lookback, which the code does not
\* read here.
Percentile(historical_vol, current_vol, n) ==
    RoundHalfEven(CountAtMost(historical_vol, current_vol) * 10000, Len(historical_vol))

\* The regime test with the bounds included in the outer bands.
RegimeInclusive(historical_vol, current_vol) ==
    IF current_vol * Len(historical_vol) * 10 <= SumSeq(historical_vol) * 7
    THEN "low_volatility"
    ELSE IF current_vol * Len(historical_vol) * 10 >= SumSeq(historical_vol) * 13
    THEN "high_volatility"
    ELSE "normal_volatility"

\* current_vol < avg_vol * 0.7, current_vol > avg_vol * 1.3 with
\* avg_vol = sum/len, compared exactly (both sides times 10 * len).
Regime(historical_vol, current_vol) ==
    IF current_vol * Len(historical_vol) * 10 < SumSeq(historical_vol) * 7
    THEN "low_volatility"
    ELSE IF current_vol * Len(historical_vol) * 10 > SumSeq(historical_vol) * 13
    THEN "high_volatility"
    ELSE "normal_volatility"

\* The trend taken over klines[-6:], the first value being 5 candles back.
VolTrendFiveBack(ks, key) ==
    LET short_term_vol == ProxyValues(LastN(ks, TrendSpan + 1), key)
    IN  IF Len(short_term_vol) >= 2
           /\ short_term_vol[Len(short_term_vol)] > short_term_vol[1]
        THEN "increasing" ELSE "decreasing"

\* lines 69-75: the proxy values of klines[-5:], last against first.
VolTrend(ks, key) ==
    LET short_term_vol == ProxyValues(LastN(ks, TrendSpan), key)
    IN  IF Len(short_term_vol) >= 2
           /\ short_term_vol[Len(short_term_vol)] > short_term_vol[1]
        THEN "increasing" ELSE "decreasing"

RECURSIVE MaxSeq(_)
MaxSeq(s) == IF Len(s) = 1 THEN s[1] ELSE Max2(s[1], MaxSeq(Tail(s)))

RECURSIVE MinSeq(_)
MinSeq(s) == IF Len(s) = 1 THEN s[1]
             ELSE LET m == MinSeq(Tail(s)) IN IF s[1] <= m THEN s[1] ELSE m

\* calculate_volatility_regime(klines, lookback), lookback >= 1
VolatilityRegime(ks, n) ==
    IF ks = <<>> \/ Len(ks) < n
    THEN [status |-> "insufficient_data"]
    ELSE LET recent == LastN(ks, n)
             latest == ks[Len(ks)]
             volatility_key == VolatilityKey(latest)
             historical_vol == ProxyValues(recent, volatility_key)
         IN  IF volatility_key \notin DOMAIN latest
             THEN [status |-> "no_volatility_data"]
             ELSE IF historical_vol = <<>>
             THEN [status |-> "no_volatility_data"]
             ELSE [status                |-> "ok",
                   current_volatility    |-> latest[volatility_key],
                   average_volatility    |-> RoundHalfEven(SumSeq(historical_vol),
                                                           Len(historical_vol)),
                   max_volatility        |-> MaxSeq(historical_vol),
                   min_volatility        |-> MinSeq(historical_vol),
                   volatility_percentile |-> Percentile(historical_vol,
                                                        latest[volatility_key], n),
                   regime                |-> Regime(historical_vol, latest[volatility_key]),
                   volatility_trend      |-> VolTrend(ks, volatility_key),
                   volatility_key        |-> volatility_key]

InitRegime ==
    /\ stage = "call"
    /\ exchange = "none"
    /\ symbol = "BTCUSDT"
    /\ raw_klines = <<>>
    /\ normalized = Ret(<<>>)
    /\ records = <<>>
    /\ result = Ret(<<>>)
    /\ klines \in UNION {[1..n -> ProxyCandles] : n \in 0..MaxKlines}
    /\ lookback \in 1..MaxLookback
    /\ vol_analysis = [status |-> "none"]
    /\ payload = NoKeys
    /\ report = [status |-> "none"]
    /\ summary = Ret(NoKeys)
    /\ NoRun

CalculateVolatilityRegime ==
    /\ stage = "call"
    /\ vol_analysis' = VolatilityRegime(klines, lookback)
    /\ stage' = "return"
    /\ UNCHANGED <<exchange, symbol, raw_klines, normalized, records, result,
                   klines, lookback>>
    /\ UNCHANGED <<payload, report, summary>>
    /\ UNCHANGED run_vars

NextRegime == CalculateVolatilityRegime

SpecRegime == InitRegime /\ [][NextRegime]_vars

(***************************************************************************)
(* Claims about the Volatility Regime Classifier (checked under SpecRegime) *)
(* The most recent candle is the one the classifier reads as latest, the   *)
(* last element of klines; the trailing window is the last lookback        *)
(* elements.                                                               *)
(***************************************************************************)
MostRecent(ks) == ks[Len(ks)]

\* The list positions of the trailing lookback window.
WindowPositions(ks, n) == {j \in 1..Len(ks) : j > Len(ks) - n}

\* The window positions whose candle carries the proxy field.
WithProxy(ks, n, key) == {j \in WindowPositions(ks, n) : key \in DOMAIN ks[j]}

\* C8: the status is insufficient_data exactly when there are fewer candles
\* than the lookback (lookback >= 1); otherwise the proxy is atr14_pct when
\* the most recent candle has it, else volatility_20_pct when it has that
\* (status ok either way), and the status is no_volatility_data when it has
\* neither.  Every case returns a status.
C8_ClassifierStatus ==
    stage = "return" =>
        /\ vol_analysis.status \in {"ok", "insufficient_data", "no_volatility_data"}
        /\ vol_analysis.status = "insufficient_data" <=> Len(klines) < lookback
        /\ Len(klines) >= lookback =>
              IF "atr14_pct" \in DOMAIN MostRecent(klines)
              THEN vol_analysis.status = "ok"
                   /\ vol_analysis.volatility_key = "atr14_pct"
              ELSE IF "volatility_20_pct" \in DOMAIN MostRecent(klines)
              THEN vol_analysis.status = "ok"
                   /\ vol_analysis.volatility_key = "volatility_20_pct"
              ELSE vol_analysis.status = "no_volatility_data"

C8_Witness ==
    /\ stage = "return"
    /\ Len(klines) > lookback
    /\ DOMAIN MostRecent(klines) = {"symbol", "atr14_pct", "volatility_20_pct"}
    /\ "atr14_pct" \notin DOMAIN klines[Len(klines) - 1]
    /\ vol_analysis.status = "ok"
    /\ vol_analysis.volatility_key = "atr14_pct"

\* The number of proxy values of the window that are <= the current value.
AtMostCurrent(ks, n, key) ==
    Cardinality({j \in WithProxy(ks, n, key) : ks[j][key] <= MostRecent(ks)[key]})

\* C9 as stated: with status ok, volatility_percentile is (number of proxy
\* values of the trailing window <= the current value) / window_size * 100,
\* window_size being the number of candles of the window (the lookback),
\* also when candles of the window carry no proxy value.
C9_PercentileOverWindowSize ==
    (stage = "return" /\ vol_analysis.status = "ok") =>
        vol_analysis.volatility_percentile =
            RoundHalfEven(AtMostCurrent(klines, lookback, vol_analysis.volatility_key) * 10000,
                          Cardinality(WindowPositions(klines, lookback)))

\* C9 as amended: the count is divided by the number of candles of the
\* trailing window that carry the proxy value, and the result is rounded to
\* two decimals.
C9_PercentileOverValuesPresent ==
    (stage = "return" /\ vol_analysis.status = "ok") =>
        vol_analysis.volatility_percentile =
            RoundHalfEven(AtMostCurrent(klines, lookback, vol_analysis.volatility_key) * 10000,
                          Cardinality(WithProxy(klines, lookback, vol_analysis.volatility_key)))

C9_Witness ==
    /\ stage = "return"
    /\ vol_analysis.status = "ok"
    /\ lookback = MaxLookback
    /\ Cardinality(WithProxy(klines, lookback, vol_analysis.volatility_key)) = 2
    /\ vol_analysis.volatility_percentile = 5000

\* The sum of the proxy values of the window.
WindowSum(ks, n, key) ==
    SumSeq([j \in 1..Len(ks) |-> IF j \in WithProxy(ks, n, key) THEN ks[j][key] ELSE 0])

\* C10: with status ok the regime is low_volatility iff current < 0.7 x the
\* window average, high_volatility iff current > 1.3 x the window average,
\* normal_volatility otherwise (the two bounds included); the comparison is
\* exact: current * count * 10 against 7 (13) * the window sum.
C10_RegimeThresholds ==
    (stage = "return" /\ vol_analysis.status = "ok") =>
        LET key == vol_analysis.volatility_key
            lhs == MostRecent(klines)[key]
                       * Cardinality(WithProxy(klines, lookback, key)) * 10
            total == WindowSum(klines, lookback, key)
        IN  /\ vol_analysis.regime
                  \in {"low_volatility", "normal_volatility", "high_volatility"}
            /\ vol_analysis.regime = "low_volatility" <=> lhs < 7 * total
            /\ vol_analysis.regime = "high_volatility" <=> lhs > 13 * total
            /\ vol_analysis.regime = "normal_volatility"
                  <=> (lhs >= 7 * total /\ lhs <= 13 * total)

C10_Witness ==
    /\ stage = "return"
    /\ vol_analysis.status = "ok"
    /\ vol_analysis.volatility_key = "atr14_pct"
    /\ MostRecent(klines).atr14_pct
          * Cardinality(WithProxy(klines, lookback, "atr14_pct")) * 10
       = 7 * WindowSum(klines, lookback, "atr14_pct")
    /\ vol_analysis.regime = "normal_volatility"

(***************************************************************************)
(* The short-term trend of the classifier (checked under SpecTrend): the   *)
(* same action on sequences long enough to hold a candle 5 back, all       *)
(* candles with or without atr14_pct.                                      *)
(***************************************************************************)
MaxTrendKlines == 6

TrendCandles == {c \in ProxyCandles : "volatility_20_pct" \notin DOMAIN c}

InitTrend ==
    /\ stage = "call"
    /\ exchange = "none"
    /\ symbol = "BTCUSDT"
    /\ raw_klines = <<>>
    /\ normalized = Ret(<<>>)
    /\ records = <<>>
    /\ result = Ret(<<>>)
    /\ klines \in UNION {[1..n -> TrendCandles] : n \in 0..MaxTrendKlines}
    /\ lookback \in 1..MaxLookback
    /\ vol_analysis = [status |-> "none"]
    /\ payload = NoKeys
    /\ report = [status |-> "none"]
    /\ summary = Ret(NoKeys)
    /\ NoRun

SpecTrend == InitTrend /\ [][NextRegime]_vars

\* C11 as stated: with status ok, volatility_trend is increasing iff the
\* current proxy value is strictly greater than the proxy value of the
\* candle 5 candles back, and decreasing otherwise.
C11_TrendAgainstFiveBack ==
    (stage = "return" /\ vol_analysis.status = "ok") =>
        LET key == vol_analysis.volatility_key
            n == Len(klines)
        IN  vol_analysis.volatility_trend =
                IF /\ n > TrendSpan
                   /\ key \in DOMAIN klines[n - TrendSpan]
                   /\ MostRecent(klines)[key] > klines[n - TrendSpan][key]
                THEN "increasing" ELSE "decreasing"

\* The positions of the last 5 candles that carry the proxy value.
TrendPositions(ks, key) ==
    {j \in 1..Len(ks) : j > Len(ks) - TrendSpan /\ key \in DOMAIN ks[j]}

\* C11 as amended: with status ok, volatility_trend is increasing iff at
\* least 2 of the last 5 candles (the current one and the 4 before it)
\* carry the proxy value and the current value is strictly greater than the
\* value of the earliest of them; otherwise it is decreasing.
C11_TrendAcrossLastFive ==
    (stage = "return" /\ vol_analysis.status = "ok") =>
        LET key == vol_analysis.volatility_key
            P == TrendPositions(klines, key)
            first == CHOOSE j \in P : \A i \in P : j <= i
        IN  vol_analysis.volatility_trend =
                IF Cardinality(P) >= 2 /\ MostRecent(klines)[key] > klines[first][key]
                THEN "increasing" ELSE "decreasing"

C11_Witness ==
    /\ stage = "return"
    /\ vol_analysis.status = "ok"
    /\ Len(klines) = TrendSpan + 1
    /\ "atr14_pct" \in DOMAIN klines[1] /\ klines[1].atr14_pct = 13
    /\ "atr14_pct" \notin DOMAIN klines[2]
    /\ "atr14_pct" \in DOMAIN klines[3] /\ klines[3].atr14_pct = 1
    /\ MostRecent(klines).atr14_pct = 7
    /\ vol_analysis.volatility_trend = "increasing"

(***************************************************************************)
(* The Signal Detector: volatility_analysis.py,                            *)
(* detect_volatility_expansion_signals, as json_summary.main calls it on   *)
(* the loaded payload.  An auxiliary snapshot that is None is an absent    *)
(* key of aux.  Units: funding rates 10^-4, priceChangePercent, open       *)
(* interest, order-book prices and quantities 1.  The description string   *)
(* of a signal is not modelled.                                            *)
(***************************************************************************)
MaxDetectKlines == 20

MinHistory == 20
DefaultLookback == 20
CompressionPercentile == 30
VolumeSpan == 5
RsiOversold == 30
RsiOverbought == 70
BookDepth == 10
High24hPercent == 5

\* d.get(key, default)
Get(d, key, default) == IF key \in DOMAIN d THEN d[key] ELSE default

\* "if snapshot:" for a snapshot that is None or a dict
Truthy(aux, key) == key \in DOMAIN aux /\ DOMAIN aux[key] # {}

\* The strength literal of the appended signal dict, by rule.
StrengthField(type) ==
    CASE type = "volatility_trend_reversal"       -> 2
      [] type = "volatility_compression_breakout" -> 3
      [] type = "volume_expansion"                -> 2
      [] type = "rsi_oversold"                    -> 1
      [] type = "rsi_overbought"                  -> 1
      [] type = "price_breakout_ma20"             -> 2
      [] type = "price_breakdown_ma20"            -> 2
      [] type = "extreme_funding_rate"            -> 2
      [] type = "open_interest_present"           -> 1
      [] type = "order_book_imbalance"            -> 2
      [] type = "high_24h_volatility"             -> 1

\* The increments with the compression breakout adding 2.
StrengthAddedFlat(type) ==
    IF type \in {"rsi_oversold", "rsi_overbought", "open_interest_present",
                 "high_24h_volatility"}
    THEN 1 ELSE 2

\* The literal of "signal_strength += n" that follows the append, by rule.
StrengthAdded(type) ==
    CASE type = "volatility_trend_reversal"       -> 2
      [] type = "volatility_compression_breakout" -> 3
      [] type = "volume_expansion"                -> 2
      [] type = "rsi_oversold"                    -> 1
      [] type = "rsi_overbought"                  -> 1
      [] type = "price_breakout_ma20"             -> 2
      [] type = "price_breakdown_ma20"            -> 2
      [] type = "extreme_funding_rate"            -> 2
      [] type = "open_interest_present"           -> 1
      [] type = "order_book_imbalance"            -> 2
      [] type = "high_24h_volatility"             -> 1

\* signals.append({"type": ..., "strength": ...})
Signal(type) == <<[type |-> type, strength |-> StrengthField(type)]>>

\* The increment written as an assignment.
AddStrengthOverwrite(signal_strength, n) == n

\* signal_strength += n
AddStrength(signal_strength, n) == signal_strength + n

\* signal_strength after the increments of the appended signals, in order,
\* from signal_strength = 0 (line 119).
RECURSIVE Accumulate(_, _)
Accumulate(sigs, signal_strength) ==
    IF sigs = <<>> THEN signal_strength
    ELSE Accumulate(Tail(sigs),
                    AddStrength(signal_strength, StrengthAdded(Head(sigs).type)))

\* lines 135-141
TrendReversal(va) ==
    IF va.regime = "low_volatility" /\ va.volatility_trend = "increasing"
    THEN Signal("volatility_trend_reversal") ELSE <<>>

\* lines 144-158; percentile in units of 10^-2, current_change >
\* prev_change * 1.5 compared exactly (both sides times 2).
CompressionBreakout(ks, va) ==
    IF va.volatility_percentile < CompressionPercentile * 100 /\ Len(ks) >= 2
    THEN LET current_change == Abs(Get(ks[Len(ks)], "price_change_pct", 0))
             prev_change == Abs(Get(ks[Len(ks) - 1], "price_change_pct", 0))
         IN  IF 2 * current_change > 3 * prev_change
             THEN Signal("volatility_compression_breakout") ELSE <<>>
    ELSE <<>>

\* lines 161-172; latest_volume > avg_volume * 1.5 compared exactly (both
\* sides times 2 * len).
VolumeExpansion(ks) ==
    IF Len(ks) >= 2
    THEN LET window == LastN(ks, VolumeSpan)
             recent_volumes == [j \in 1..Len(window) |-> Get(window[j], "volume", 0)]
             latest_volume == Get(ks[Len(ks)], "volume", 0)
         IN  IF 2 * Len(recent_volumes) * latest_volume > 3 * SumSeq(recent_volumes)
             THEN Signal("volume_expansion") ELSE <<>>
    ELSE <<>>

\* lines 175-191; rsi14 in units of 10^-2
RsiExtreme(ks) ==
    LET latest == ks[Len(ks)]
    IN  IF "rsi14" \notin DOMAIN latest THEN <<>>
        ELSE IF latest.rsi14 < RsiOversold * 100 THEN Signal("rsi_oversold")
        ELSE IF latest.rsi14 > RsiOverbought * 100 THEN Signal("rsi_overbought")
        ELSE <<>>

\* "if ma20 and close and prev": a value that is None or 0 is falsy
Nonzero(d, key) == key \in DOMAIN d /\ d[key] # 0

\* lines 194-217; ma20 in units of 10^-8, closes in units of 1
MaCross(ks) ==
    IF Len(ks) >= MinHistory
    THEN LET latest == ks[Len(ks)]
             prev == ks[Len(ks) - 1]
         IN  IF Nonzero(latest, "ma20") /\ Nonzero(latest, "close") /\ DOMAIN prev # {}
             THEN LET ma20 == latest.ma20
                      close == latest.close * 100000000
                      prev_close == prev.close * 100000000
                  IN  IF prev_close < ma20 /\ close > ma20
                      THEN Signal("price_breakout_ma20")
                      ELSE IF prev_close > ma20 /\ close < ma20
                      THEN Signal("price_breakdown_ma20")
                      ELSE <<>>
             ELSE <<>>
    ELSE <<>>

\* lines 220-230; abs(funding) > 0.05 with funding in units of 10^-4
ExtremeFunding(aux) ==
    IF Truthy(aux, "funding_rate")
    THEN LET funding_rate == aux["funding_rate"]
             given == IF Nonzero(funding_rate, "lastFundingRate")
                      THEN "lastFundingRate" ELSE "fundingRate"
         IN  IF given \in DOMAIN funding_rate /\ Abs(funding_rate[given]) > 500
             THEN Signal("extreme_funding_rate") ELSE <<>>
    ELSE <<>>

\* lines 233-243
OpenInterestPresent(ks, aux) ==
    IF /\ Truthy(aux, "open_interest")
       /\ Nonzero(aux["open_interest"], "openInterest")
       /\ Len(ks) >= 2
    THEN Signal("open_interest_present") ELSE <<>>

\* The notional of all the levels of a side.
NotionalFullDepth(levels, depth) ==
    SumSeq([j \in 1..Len(levels) |-> levels[j][1] * levels[j][2]])

\* sum(float(price) * float(qty) for price, qty in levels[:depth])
Notional(levels, depth) ==
    LET top == IF Len(levels) <= depth THEN levels ELSE SubSeq(levels, 1, depth)
    IN  SumSeq([j \in 1..Len(top) |-> top[j][1] * top[j][2]])

\* lines 246-261; abs(imbalance) > 0.3 compared exactly (both sides times
\* 10 * total)
OrderBookImbalance(aux) ==
    IF Truthy(aux, "order_book")
    THEN LET bids == Get(aux["order_book"], "bids", <<>>)
             asks == Get(aux["order_book"], "asks", <<>>)
             bid_value == Notional(bids, BookDepth)
             ask_value == Notional(asks, BookDepth)
             total == bid_value + ask_value
         IN  IF /\ bids # <<>> /\ asks # <<>>
                /\ total > 0
                /\ 10 * Abs(bid_value - ask_value) > 3 * total
             THEN Signal("order_book_imbalance") ELSE <<>>
    ELSE <<>>

\* lines 264-272
High24hVolatility(aux) ==
    IF /\ Truthy(aux, "ticker_24hr")
       /\ Abs(Get(aux["ticker_24hr"], "priceChangePercent", 0)) > High24hPercent
    THEN Signal("high_24h_volatility") ELSE <<>>

\* The buckets with the lower bounds excluded.
ConclusionExclusive(signal_strength) ==
    IF signal_strength > 6 THEN "high_probability"
    ELSE IF signal_strength > 4 THEN "medium_probability"
    ELSE IF signal_strength > 2 THEN "low_probability"
    ELSE "no_signal"

\* lines 275-286
Conclusion(signal_strength) ==
    IF signal_strength >= 6 THEN "high_probability"
    ELSE IF signal_strength >= 4 THEN "medium_probability"
    ELSE IF signal_strength >= 2 THEN "low_probability"
    ELSE "no_signal"

\* The early return reporting ok.
EarlyReturnAsOk(status) ==
    [status |-> "ok", signals |-> <<>>, signal_strength |-> 0]

\* lines 112-116 and 124-128
EarlyReturn(status) ==
    [status |-> status, signals |-> <<>>, signal_strength |-> 0]

\* not klines or len(klines) < 20
HistoryTooShort(ks) == ks = <<>> \/ Len(ks) < MinHistory

\* lines 118-294, after a classification va with status ok
EvaluateRules(ks, aux, va) ==
    LET signals == TrendReversal(va) \o CompressionBreakout(ks, va)
                   \o VolumeExpansion(ks) \o RsiExtreme(ks) \o MaCross(ks)
                   \o ExtremeFunding(aux) \o OpenInterestPresent(ks, aux)
                   \o OrderBookImbalance(aux) \o High24hVolatility(aux)
        signal_strength == Accumulate(signals, 0)
    IN  [status              |-> "ok",
         volatility_analysis |-> va,
         signals             |-> signals,
         signal_strength     |-> signal_strength,
         conclusion          |-> Conclusion(signal_strength)]

\* detect_volatility_expansion_signals(klines, ticker_24hr, funding_rate,
\* open_interest, order_book)
DetectVolatilityExpansionSignals(ks, aux) ==
    IF HistoryTooShort(ks) THEN EarlyReturn("insufficient_data")
    ELSE LET va == VolatilityRegime(ks, DefaultLookback)
         IN  IF va.status # "ok" THEN EarlyReturn(va.status)
             ELSE EvaluateRules(ks, aux, va)

(***************************************************************************)
(* Detector inputs.  A candle sequence is filler candles (atr14_pct 10,    *)
(* close 10, volume 7) with the latest candle, the one before it and the   *)
(* first of the last five drawn from the cases below; a case gives the     *)
(* fields it sets as a dict.  Sequences have 0, 19 or 20..MaxDetectKlines  *)
(* candles, in the order the detector reads them (latest last); the ones   *)
(* too short for the detector vary in the latest rsi14 only.               *)
(***************************************************************************)
\* <<proxy of the latest candle, proxy of the first of the last five>>
AtrCases ==
    {<<NoKeys, "atr14_pct" :> 10>>,
     <<"atr14_pct" :> 10, "atr14_pct" :> 10>>,
     <<"atr14_pct" :> 1, "atr14_pct" :> 0>>,
     <<"atr14_pct" :> 1, "atr14_pct" :> 10>>}

\* <<price_change_pct of the latest candle, of the one before>>
PctCases ==
    {<<"price_change_pct" :> 3, "price_change_pct" :> 2>>,
     <<"price_change_pct" :> -4, "price_change_pct" :> 2>>}

LatestVolumes == {12, 13}

RsiCases == {NoKeys, "rsi14" :> 2999, "rsi14" :> 3000, "rsi14" :> 7000, "rsi14" :> 7001}

\* <<ma20 of the latest candle, its close, the close of the one before>>
MaCases ==
    {<<NoKeys, 11, 9>>,
     <<"ma20" :> 1000000000, 11, 9>>,
     <<"ma20" :> 1000000000, 9, 11>>,
     <<"ma20" :> 1000000000, 0, 11>>}

MkDetectCandle(n, k, a, pc, v, r, m) ==
    LET base == [symbol |-> "BTCUSDT", open_time |-> k, close |-> 10, volume |-> 7]
    IN  IF k = n
        THEN a[1] @@ pc[1] @@ r @@ m[1] @@ [base EXCEPT !.close = m[2], !.volume = v]
        ELSE IF k = n - 1
        THEN ("atr14_pct" :> 10) @@ pc[2] @@ [base EXCEPT !.close = m[3]]
        ELSE IF k = n - (VolumeSpan - 1)
        THEN a[2] @@ base
        ELSE ("atr14_pct" :> 10) @@ base

ShortKlines ==
    {[k \in 1..n |-> MkDetectCandle(n, k, <<"atr14_pct" :> 1, "atr14_pct" :> 0>>,
                                    <<"price_change_pct" :> -4, "price_change_pct" :> 2>>,
                                    13, r, <<"ma20" :> 1000000000, 11, 9>>)] :
        n \in {0, MinHistory - 1}, r \in RsiCases}

LongKlines ==
    {[k \in 1..n |-> MkDetectCandle(n, k, a, pc, v, r, m)] :
        n \in MinHistory..MaxDetectKlines, a \in AtrCases, pc \in PctCases,
        v \in LatestVolumes, r \in RsiCases, m \in MaCases}

DetectKlines == ShortKlines \cup LongKlines

TickerCases ==
    {NoKeys,
     "ticker_24hr" :> [symbol |-> "BTCUSDT", priceChangePercent |-> 5],
     "ticker_24hr" :> [symbol |-> "BTCUSDT", priceChangePercent |-> -6]}

\* 0.0002, 0.0007 and 0.06 in units of 10^-4
FundingCases ==
    {NoKeys,
     "funding_rate" :> [symbol |-> "BTCUSDT", lastFundingRate |-> 2],
     "funding_rate" :> [symbol |-> "BTCUSDT", lastFundingRate |-> 7],
     "funding_rate" :> [symbol |-> "BTCUSDT", lastFundingRate |-> 600]}

OpenInterestCases ==
    {NoKeys,
     "open_interest" :> [symbol |-> "BTCUSDT", openInterest |-> 0],
     "open_interest" :> [symbol |-> "BTCUSDT", openInterest |-> 5]}

\* bids and asks of 10 levels <<1, 1>>, the bids followed by <<100, 1>>
DeepBook ==
    [bids |-> [j \in 1..(BookDepth + 1) |-> IF j <= BookDepth THEN <<1, 1>> ELSE <<100, 1>>],
     asks |-> [j \in 1..BookDepth |-> <<1, 1>>]]

BookCases ==
    {NoKeys,
     "order_book" :> [bids |-> <<<<100, 5>>, <<99, 3>>>>, asks |-> <<<<101, 1>>>>],
     "order_book" :> [bids |-> <<<<13, 1>>>>, asks |-> <<<<7, 1>>>>],
     "order_book" :> [bids |-> <<<<100, 5>>>>, asks |-> <<>>],
     "order_book" :> [bids |-> <<<<0, 1>>>>, asks |-> <<<<0, 1>>>>],
     "order_book" :> DeepBook}

\* The loaded payload: the klines and the snapshots that are present.
DetectPayload(ks, t, f, oi, ob) == ("klines" :> ks) @@ t @@ f @@ oi @@ ob

InitSignal ==
    /\ stage = "call"
    /\ exchange = "none"
    /\ symbol = "BTCUSDT"
    /\ raw_klines = <<>>
    /\ normalized = Ret(<<>>)
    /\ records = <<>>
    /\ result = Ret(<<>>)
    /\ \E ks \in DetectKlines, t \in TickerCases, f \in FundingCases,
          oi \in OpenInterestCases, ob \in BookCases :
          payload = DetectPayload(ks, t, f, oi, ob)
    /\ klines = payload["klines"]
    /\ lookback = DefaultLookback
    /\ vol_analysis = [status |-> "none"]
    /\ report = [status |-> "none"]
    /\ summary = Ret(NoKeys)
    /\ NoRun

\* json_summary.main: vol_result = detect_volatility_expansion_signals(
\* klines=data.get("klines", []), ticker_24hr=data.get("ticker_24hr"), ...);
\* the detector calls calculate_volatility_regime(klines) once the history
\* is long enough.
DetectSignals ==
    /\ stage = "call"
    /\ report' = DetectVolatilityExpansionSignals(klines, payload)
    /\ vol_analysis' = IF HistoryTooShort(klines) THEN vol_analysis
                       ELSE VolatilityRegime(klines, DefaultLookback)
    /\ stage' = "return"
    /\ UNCHANGED <<exchange, symbol, raw_klines, normalized, records, result,
                   klines, lookback, payload, summary>>
    /\ UNCHANGED run_vars

NextSignal == DetectSignals

SpecSignal == InitSignal /\ [][NextSignal]_vars

(***************************************************************************)
(* Claims about the Signal Detector (checked under SpecSignal).  The       *)
(* latest candle is the one the detector reads as latest, the last element *)
(* of klines, and the prior candle the one before it.                      *)
(***************************************************************************)
Types(rep) == {rep.signals[j].type : j \in 1..Len(rep.signals)}

Emits(rep, type) == type \in Types(rep)

\* C12: a sequence of fewer than 20 candles (the empty one included), with
\* any auxiliary snapshots, is answered by status insufficient_data, an
\* empty signal list and signal_strength 0; and every report whose status
\* is not ok has an empty signal list and signal_strength 0.
C12_ShortHistoryInsufficientData ==
    stage = "return" =>
        /\ Len(klines) < 20 =>
              /\ report.status = "insufficient_data"
              /\ report.signals = <<>>
              /\ report.signal_strength = 0
        /\ report.status # "ok" =>
              /\ report.signals = <<>>
              /\ report.signal_strength = 0

C12_Witness ==
    /\ stage = "return"
    /\ Len(klines) = 19
    /\ Has(MostRecent(klines), "rsi14")
    /\ MostRecent(klines).rsi14 = 2999
    /\ DOMAIN payload = {"klines", "ticker_24hr", "funding_rate", "open_interest",
                         "order_book"}
    /\ payload["funding_rate"].lastFundingRate = 600
    /\ payload["open_interest"].openInterest = 5
    /\ report.status = "insufficient_data"
    /\ report.signals = <<>>
    /\ report.signal_strength = 0

\* The weight of each rule as the specification lists it.
RuleWeight(type) ==
    IF type = "volatility_compression_breakout" THEN 3
    ELSE IF type \in {"volatility_trend_reversal", "volume_expansion",
                      "price_breakout_ma20", "price_breakdown_ma20",
                      "extreme_funding_rate", "order_book_imbalance"} THEN 2
    ELSE IF type \in {"rsi_oversold", "rsi_overbought", "open_interest_present",
                      "high_24h_volatility"} THEN 1
    ELSE 0

\* C13: in a report with status ok, signal_strength is the sum of the
\* strength fields of the listed signals, no signal type occurs twice,
\* every signal carries the weight of its rule (3, 2 or 1 as listed), and
\* 0 <= signal_strength <= 16.
C13_StrengthIsSumOfWeights ==
    (stage = "return" /\ report.status = "ok") =>
        LET sigs == report.signals
        IN  /\ report.signal_strength = SumSeq([j \in 1..Len(sigs) |-> sigs[j].strength])
            /\ \A i, j \in 1..Len(sigs) : sigs[i].type = sigs[j].type => i = j
            /\ \A j \in 1..Len(sigs) :
                  RuleWeight(sigs[j].type) > 0 /\ sigs[j].strength = RuleWeight(sigs[j].type)
            /\ report.signal_strength >= 0
            /\ report.signal_strength <= 16

C13_Witness ==
    /\ stage = "return"
    /\ report.status = "ok"
    /\ Len(report.signals) = 9
    /\ Emits(report, "volatility_compression_breakout")
    /\ report.signal_strength = 16

\* C14: in a report with status ok, conclusion is high_probability iff
\* signal_strength >= 6, medium_probability iff it is 4 or 5,
\* low_probability iff it is 2 or 3, and no_signal iff it is <= 1.
C14_ConclusionBuckets ==
    (stage = "return" /\ report.status = "ok") =>
        LET s == report.signal_strength
        IN  /\ report.conclusion = "high_probability" <=> s >= 6
            /\ report.conclusion = "medium_probability" <=> (s >= 4 /\ s <= 5)
            /\ report.conclusion = "low_probability" <=> (s >= 2 /\ s <= 3)
            /\ report.conclusion = "no_signal" <=> s <= 1

C14_Witness ==
    /\ stage = "return"
    /\ report.status = "ok"
    /\ report.signal_strength = 4
    /\ report.conclusion = "medium_probability"

C16_FundingThreshold ==
    (stage = "return" /\ report.status = "ok" /\ Has(payload, "funding_rate")) =>
        /\ Emits(report, "extreme_funding_rate")
              <=> Abs(payload["funding_rate"].lastFundingRate) > 5
        /\ \A j \in 1..Len(report.signals) :
              report.signals[j].type = "extreme_funding_rate"
                  => report.signals[j].strength = 2

\* The notional of the first 10 levels of a side.
TopTenNotional(levels) ==
    SumSeq([j \in 1..Len(levels) |-> IF j <= 10 THEN levels[j][1] * levels[j][2] ELSE 0])

\* |(bid - ask) / (bid + ask)| > 0.3 over the first 10 levels, total > 0
Imbalanced(book) ==
    LET bid == TopTenNotional(book.bids)
        ask == TopTenNotional(book.asks)
    IN  bid + ask > 0 /\ 10 * Abs(bid - ask) > 3 * (bid + ask)

\* C17 as stated: with status ok and an order book, order_book_imbalance is
\* emitted, with strength 2, iff the imbalance of the notionals of the
\* first 10 levels of each side exceeds 0.3 in absolute value (a zero total
\* emits nothing).
C17_ImbalanceOverTopTen ==
    (stage = "return" /\ report.status = "ok" /\ Has(payload, "order_book")) =>
        /\ Emits(report, "order_book_imbalance") <=> Imbalanced(payload["order_book"])
        /\ \A j \in 1..Len(report.signals) :
              report.signals[j].type = "order_book_imbalance"
                  => report.signals[j].strength = 2

\* C17 as amended: the signal is emitted iff both sides of the book hold at
\* least one level and the imbalance of the top-10 notionals exceeds 0.3 in
\* absolute value; a book with an empty side emits nothing.
C17_ImbalanceOfTwoSidedBook ==
    (stage = "return" /\ report.status = "ok" /\ Has(payload, "order_book")) =>
        /\ Emits(report, "order_book_imbalance")
              <=> /\ payload["order_book"].bids # <<>>
                  /\ payload["order_book"].asks # <<>>
                  /\ Imbalanced(payload["order_book"])
        /\ \A j \in 1..Len(report.signals) :
              report.signals[j].type = "order_book_imbalance"
                  => report.signals[j].strength = 2

C17_Witness ==
    /\ stage = "return"
    /\ report.status = "ok"
    /\ Has(payload, "order_book")
    /\ payload["order_book"].bids = <<<<100, 5>>, <<99, 3>>>>
    /\ payload["order_book"].asks = <<<<101, 1>>>>
    /\ TopTenNotional(payload["order_book"].bids) = 797
    /\ TopTenNotional(payload["order_book"].asks) = 101
    /\ Emits(report, "order_book_imbalance")

(***************************************************************************)
(* Monotonicity of the strength (checked under SpecMono): the detector on  *)
(* the payloads whose history is long enough and whose candles differ in   *)
(* the proxy, the latest rsi14 and the latest volume.                      *)
(***************************************************************************)
MonoKlines ==
    {[k \in 1..n |-> MkDetectCandle(n, k, a,
                                    <<"price_change_pct" :> -4, "price_change_pct" :> 2>>,
                                    v, r, <<"ma20" :> 1000000000, 11, 9>>)] :
        n \in MinHistory..MaxDetectKlines,
        a \in {c \in AtrCases : c[1] # NoKeys}, v \in LatestVolumes, r \in RsiCases}

InitMono ==
    /\ stage = "call"
    /\ exchange = "none"
    /\ symbol = "BTCUSDT"
    /\ raw_klines = <<>>
    /\ normalized = Ret(<<>>)
    /\ records = <<>>
    /\ result = Ret(<<>>)
    /\ \E ks \in MonoKlines, t \in TickerCases, f \in FundingCases,
          oi \in OpenInterestCases, ob \in BookCases :
          payload = DetectPayload(ks, t, f, oi, ob)
    /\ klines = payload["klines"]
    /\ lookback = DefaultLookback
    /\ vol_analysis = [status |-> "none"]
    /\ report = [status |-> "none"]
    /\ summary = Ret(NoKeys)
    /\ NoRun

SpecMono == InitMono /\ [][NextSignal]_vars

\* The payload with one auxiliary snapshot replaced by a case (or removed).
WithSnapshot(p, key, c) == c @@ [k \in DOMAIN p \ {key} |-> p[k]]

\* The payloads equal to p but for one auxiliary snapshot.
SnapshotVariants(p) ==
    {WithSnapshot(p, "ticker_24hr", c) : c \in TickerCases}
    \cup {WithSnapshot(p, "funding_rate", c) : c \in FundingCases}
    \cup {WithSnapshot(p, "open_interest", c) : c \in OpenInterestCases}
    \cup {WithSnapshot(p, "order_book", c) : c \in BookCases}

\* The payloads equal to p but for the rsi14 of the latest candle.
RsiVariants(p) ==
    LET ks == p["klines"]
        latest == ks[Len(ks)]
        rest == [k \in DOMAIN latest \ {"rsi14"} |-> latest[k]]
    IN  {[p EXCEPT !["klines"] = [ks EXCEPT ![Len(ks)] = r @@ rest]] : r \in RsiCases}

ReportOf(p) == DetectVolatilityExpansionSignals(p["klines"], p)

\* C18: signal strength is monotonic.  For a report with status ok and
\* every input that differs from its input in one auxiliary snapshot or in
\* the latest rsi14 only: if every signal of the report is still emitted
\* (a rule's condition went from false to true and none the other way), the
\* other report's signal_strength is >= this one's; and moving the latest
\* rsi14 from a value >= 30 to a value < 30 never lowers signal_strength.
C18_StrengthMonotonic ==
    (stage = "return" /\ report.status = "ok") =>
        /\ \A alt \in SnapshotVariants(payload) \cup RsiVariants(payload) :
              LET other == ReportOf(alt)
              IN  Types(report) \subseteq Types(other)
                      => other.signal_strength >= report.signal_strength
        /\ \A alt \in RsiVariants(payload) :
              (/\ Has(MostRecent(klines), "rsi14")
               /\ MostRecent(klines).rsi14 >= 3000
               /\ Has(MostRecent(alt["klines"]), "rsi14")
               /\ MostRecent(alt["klines"]).rsi14 < 3000)
                  => ReportOf(alt).signal_strength >= report.signal_strength

C18_Witness ==
    /\ stage = "return"
    /\ report.status = "ok"
    /\ report.signal_strength = 7
    /\ Has(MostRecent(klines), "rsi14")
    /\ MostRecent(klines).rsi14 = 3000
    /\ ~Has(payload, "funding_rate")
    /\ \E alt \in RsiVariants(payload) :
          /\ Has(MostRecent(alt["klines"]), "rsi14")
          /\ MostRecent(alt["klines"]).rsi14 = 2999
          /\ ReportOf(alt).signal_strength = 8
    /\ \E alt \in SnapshotVariants(payload) :
          /\ Has(alt, "funding_rate")
          /\ ReportOf(alt).signal_strength = 9

(***************************************************************************)
(* The Summarizer: json_summary.py, latest_kline, order_book_imbalance,    *)
(* volume_spike, analyze_signals and summarize.  A summary field whose     *)
(* value is None is an absent key of the model's summary.  Units: prices   *)
(* and volumes 1, ma20/ma50 10^-8, rsi14 and the rounded percentages and   *)
(* ratios 10^-2; the unrounded order_book_imbalance is a reduced fraction. *)
(***************************************************************************)
MaxSummaryKlines == 21

SpikeLookback == 20

RECURSIVE GCD(_, _)
GCD(a, b) == IF b = 0 THEN a ELSE GCD(b, a % b)

\* round(num / den * 100, 2) in units of 10^-2, den > 0
RoundPct(num, den) ==
    LET g == GCD(Abs(num), den)
    IN  RoundHalfEven((num \div g) * 10000, den \div g)

\* The candle picked by taking the last element whatever the order.
LatestKlineLastElement(data) ==
    IF data = <<>> THEN Raise(ValueError, "latest_kline")
    ELSE Ret(data[Len(data)])

\* latest_kline(klines): lines 19-34
LatestKline(data) ==
    IF data = <<>> THEN Raise(ValueError, "latest_kline")
    ELSE LET first == data[1]
             last == data[Len(data)]
             t1 == Get(first, "open_time", 0)
             t2 == Get(last, "open_time", 0)
         IN  Ret(IF t1 > t2 THEN first ELSE last)

\* order_book_imbalance(order_book, depth=10): lines 37-43, the quotient as
\* a reduced fraction, 0.0 as 0/1
OrderBookRatio(order_book) ==
    LET bids == Get(order_book, "bids", <<>>)
        asks == Get(order_book, "asks", <<>>)
        bid_value == Notional(bids, BookDepth)
        ask_value == Notional(asks, BookDepth)
        total == bid_value + ask_value
        g == GCD(Abs(bid_value - ask_value), total)
    IN  IF total # 0
        THEN [num |-> (bid_value - ask_value) \div g, den |-> total \div g]
        ELSE [num |-> 0, den |-> 1]

\* volume_spike(klines, lookback=20): lines 46-55, as the pair
\* <<last_vol, sum of prev_vols>>, or <<0, 0>> for the ratio 0.0; avg_vol is
\* the sum over lookback values
VolumeSpike(data) ==
    IF Len(data) < SpikeLookback + 1 THEN <<0, 0>>
    ELSE LET last_vol == Get(data[Len(data)], "volume", 0)
             prev == SubSeq(data, Len(data) - SpikeLookback, Len(data) - 1)
             total == SumSeq([j \in 1..Len(prev) |-> Get(prev[j], "volume", 0)])
         IN  IF total > 0 THEN <<last_vol, total>> ELSE <<0, 0>>

\* The labels with each broad band tested before its extreme.
RsiStatusBroadFirst(rsi) ==
    IF rsi < 3000 THEN <<"oversold", "20-30">>
    ELSE IF rsi < 2000 THEN <<"extreme_oversold", "<20">>
    ELSE IF rsi > 7000 THEN <<"overbought", "70-80">>
    ELSE IF rsi > 8000 THEN <<"extreme_overbought", ">80">>
    ELSE IF rsi > 5000 THEN <<"bullish", "50-70">>
    ELSE IF rsi > 3000 THEN <<"bearish", "30-50">>
    ELSE <<>>

\* The labels with the lowest band closed at 30.
RsiStatusClosedAtThirty(rsi) ==
    IF rsi < 2000 THEN <<"extreme_oversold", "<20">>
    ELSE IF rsi <= 3000 THEN <<"oversold", "20-30">>
    ELSE IF rsi > 8000 THEN <<"extreme_overbought", ">80">>
    ELSE IF rsi > 7000 THEN <<"overbought", "70-80">>
    ELSE IF rsi > 5000 THEN <<"bullish", "50-70">>
    ELSE <<"bearish", "30-50">>

\* lines 63-82; rsi14 in units of 10^-2
RsiStatus(rsi) ==
    IF rsi < 2000 THEN <<"extreme_oversold", "<20">>
    ELSE IF rsi < 3000 THEN <<"oversold", "20-30">>
    ELSE IF rsi > 8000 THEN <<"extreme_overbought", ">80">>
    ELSE IF rsi > 7000 THEN <<"overbought", "70-80">>
    ELSE IF rsi > 5000 THEN <<"bullish", "50-70">>
    ELSE IF rsi > 3000 THEN <<"bearish", "30-50">>
    ELSE <<>>

\* lines 96-105; price in units of 1, ma20 and ma50 in units of 10^-8
TrendLabel(price, ma20, ma50) ==
    LET p == price * 100000000
    IN  IF p > ma20 /\ ma20 > ma50 THEN "uptrend"
        ELSE IF p < ma20 /\ ma20 < ma50 THEN "downtrend"
        ELSE IF ma20 > ma50 /\ p < ma20 THEN "uptrend_pullback"
        ELSE IF ma20 < ma50 /\ p > ma20 THEN "downtrend_rebound"
        ELSE "sideways"

\* lines 108-119; vol_ratio = last/avg with avg = total/lookback, compared
\* exactly
VolumeStatus(spike) ==
    LET last_vol == spike[1] * SpikeLookback
        total == spike[2]
    IN  IF total = 0 THEN "low"
        ELSE IF last_vol > 3 * total THEN "extreme_spike"
        ELSE IF last_vol > 2 * total THEN "spike"
        ELSE IF 2 * last_vol > 3 * total THEN "elevated"
        ELSE IF 2 * last_vol < total THEN "low"
        ELSE "normal"

\* round(vol_ratio, 2) in units of 10^-2
VolumeRatio(spike) ==
    IF spike[2] = 0 THEN 0
    ELSE RoundHalfEven(spike[1] * SpikeLookback * 100, spike[2])

\* analyze_signals(summary, klines): lines 58-122, the signals dict
AnalyzeSignals(s, data) ==
    LET rsi_label == IF Has(s, "rsi14") THEN RsiStatus(s["rsi14"]) ELSE <<>>
        with_rsi == Put(Put(NoKeys, rsi_label # <<>>, "rsi_status", rsi_label[1]),
                        rsi_label # <<>>, "rsi_level", rsi_label[2])
        price == Get(s, "current_price", 0)
        has_ma == Nonzero(s, "ma20") /\ Nonzero(s, "ma50") /\ price # 0
        with_ma ==
            IF has_ma
            THEN ("price_vs_ma20_pct" :> RoundPct(price * 100000000 - s["ma20"], s["ma20"]))
                 @@ ("price_vs_ma50_pct" :> RoundPct(price * 100000000 - s["ma50"], s["ma50"]))
                 @@ ("ma20_vs_ma50_pct" :> RoundPct(s["ma20"] - s["ma50"], s["ma50"]))
                 @@ ("trend" :> TrendLabel(price, s["ma20"], s["ma50"]))
                 @@ with_rsi
            ELSE with_rsi
        spike == VolumeSpike(data)
    IN  ("volume_ratio" :> VolumeRatio(spike))
        @@ ("volume_status" :> VolumeStatus(spike))
        @@ with_ma

\* a or b for two optional values: a when present and truthy, else b when
\* present; the result as a dict with the key, or without it for None
FirstTruthy(d, a, b, key) ==
    IF Nonzero(d, a) THEN key :> d[a]
    ELSE IF Has(d, b) THEN key :> d[b]
    ELSE NoKeys

\* d.get(src) stored under key, absent when None
Copy(d, src, key) == IF Has(d, src) THEN key :> d[src] ELSE NoKeys

\* The price taken from the candle although a snapshot price is given.
CurrentPriceFromCandle(current_price_data, last) == Get(last, "close", 0)

\* lines 136-138
CurrentPrice(current_price_data, last) ==
    IF Has(current_price_data, "price") THEN current_price_data["price"]
    ELSE Get(last, "close", 0)

\* line 141
SummarySymbol(p, last, ticker, current_price_data) ==
    IF Has(last, "symbol") /\ last["symbol"] # "" THEN last["symbol"]
    ELSE IF Has(ticker, "symbol") /\ ticker["symbol"] # "" THEN ticker["symbol"]
    ELSE IF Has(current_price_data, "symbol") /\ current_price_data["symbol"] # ""
    THEN current_price_data["symbol"]
    ELSE Get(p, "exchange", "unknown")

\* summarize(payload): lines 125-167
Summarize(p) ==
    LET data == Get(p, "klines", <<>>)
        picked == LatestKline(data)
    IN  IF picked.raised # "none" THEN picked
        ELSE
        LET last == picked.value
            ticker == Get(p, "ticker_24hr", NoKeys)
            funding == Get(p, "funding_rate", NoKeys)
            open_interest == Get(p, "open_interest", NoKeys)
            order_book == Get(p, "order_book", NoKeys)
            current_price_data == Get(p, "current_price", NoKeys)
            fields ==
                Copy(last, "ma20", "ma20") @@ Copy(last, "ma50", "ma50")
                @@ Copy(last, "rsi14", "rsi14") @@ Copy(last, "atr14", "atr14")
                @@ Copy(last, "atr14_pct", "atr14_pct")
                @@ Copy(last, "volatility_20_pct", "volatility_20_pct")
                @@ Copy(ticker, "priceChangePercent", "change_24h_pct")
                @@ Copy(ticker, "highPrice", "high_24h")
                @@ Copy(ticker, "lowPrice", "low_24h")
                @@ Copy(ticker, "volume", "volume_24h")
                @@ Copy(ticker, "quoteVolume", "quote_volume_24h")
                @@ FirstTruthy(funding, "lastFundingRate", "fundingRate", "funding_rate")
                @@ Copy(funding, "nextFundingTime", "next_funding_time")
                @@ Copy(open_interest, "openInterest", "open_interest")
                @@ [symbol               |-> SummarySymbol(p, last, ticker, current_price_data),
                    current_price        |-> CurrentPrice(current_price_data, last),
                    kline_close          |-> Get(last, "close", 0),
                    open                 |-> Get(last, "open", 0),
                    high                 |-> Get(last, "high", 0),
                    low                  |-> Get(last, "low", 0),
                    order_book_imbalance |-> OrderBookRatio(order_book)]
        IN  Ret(("signals" :> AnalyzeSignals(fields, data)) @@ fields)

(***************************************************************************)
(* Summarizer inputs: the payload files the fetch script writes.  A candle *)
(* is identified by its open_time t (close 5 + t % 7); the list is stored  *)
(* newest first, oldest first, or with its newest candle second; the       *)
(* indicator fields sit on the list positions calculate_indicators gives   *)
(* them to (index >= 14, 19, 20, 49), with synthetic values.               *)
(***************************************************************************)
SummaryLengths == (0..3) \cup ((SpikeLookback + 1)..MaxSummaryKlines) \cup {Ma50Window}

StorageOrders == {"newest_first", "oldest_first", "newest_second"}

\* The volume of the newest candle by shape, that of every other candle
\* being 4 (0 throughout for "zero"): ratios 0.25, 0.5, 1, 1.5, 1.75, 2,
\* 2.25, 3 and 3.25 on a list stored oldest first.
NewestVolume ==
    [zero |-> 0, low |-> 1, half |-> 2, flat |-> 4, edge |-> 6, elevated |-> 7,
     double |-> 8, high |-> 9, triple |-> 12, spike |-> 13]

VolumeShapes == DOMAIN NewestVolume

RsiValues == {1999, 2000, 2999, 3000, 5000, 5001, 7000, 7001, 8000, 8001}

OpenTime(n, k, order) ==
    IF order = "newest_first" THEN n + 1 - k
    ELSE IF order = "newest_second" /\ n >= 3 /\ k = 2 THEN n + 1
    ELSE k

MkSummaryCandle(n, k, order, shape, r) ==
    LET t == OpenTime(n, k, order)
        c == 5 + (t % 7)
        i == k - 1
        base == [symbol |-> "BTCUSDT", open_time |-> t, open |-> c, high |-> c + 1,
                 low |-> c - 1, close |-> c,
                 volume |-> IF shape = "zero" THEN 0
                            ELSE IF t >= n THEN NewestVolume[shape] ELSE 4]
    IN  Put(Put(Put(Put(Put(Put(base,
            i >= Ma20Window - 1, "ma20", (8 + (t % 3)) * 100000000),
            i >= Ma50Window - 1, "ma50", 900000000),
            i >= RsiPeriod, "rsi14", r),
            i >= AtrPeriod, "atr14", 200000000),
            i >= AtrPeriod, "atr14_pct", 100 + t),
            i >= VolWindow, "volatility_20_pct", 50)

SummaryKlines ==
    {[k \in 1..n |-> MkSummaryCandle(n, k, order, shape, r)] :
        n \in SummaryLengths, order \in StorageOrders, shape \in VolumeShapes,
        r \in RsiValues}

KlinesCases == {NoKeys} \cup {"klines" :> ks : ks \in SummaryKlines}

PriceCases ==
    {NoKeys,
     "current_price" :> [symbol |-> "BTCUSDT", price |-> 12],
     "current_price" :> [symbol |-> "BTCUSDT", price |-> 0]}

SummaryTickerCases ==
    {NoKeys,
     "ticker_24hr" :> [symbol |-> "BTCUSDT", priceChangePercent |-> -6, highPrice |-> 13,
                       lowPrice |-> 4, volume |-> 100, quoteVolume |-> 1000]}

SummaryFundingCases ==
    {NoKeys,
     "funding_rate" :> [symbol |-> "BTCUSDT", lastFundingRate |-> 7, nextFundingTime |-> 99],
     "funding_rate" :> [symbol |-> "BTCUSDT", lastFundingRate |-> 0, nextFundingTime |-> 99]}

SummaryOpenInterestCases ==
    {NoKeys, "open_interest" :> [symbol |-> "BTCUSDT", openInterest |-> 5]}

SummaryBookCases ==
    {NoKeys,
     "order_book" :> [bids |-> <<<<100, 5>>, <<99, 3>>>>, asks |-> <<<<101, 1>>>>],
     "order_book" :> [bids |-> <<<<100, 5>>>>, asks |-> <<>>]}

\* The payload file: the exchange and the parts that are present.
SummaryPayload(ks, cp, t, f, oi, ob) ==
    ("exchange" :> "binance") @@ ks @@ cp @@ t @@ f @@ oi @@ ob

InitSummary ==
    /\ stage = "call"
    /\ exchange = "none"
    /\ symbol = "BTCUSDT"
    /\ raw_klines = <<>>
    /\ normalized = Ret(<<>>)
    /\ records = <<>>
    /\ result = Ret(<<>>)
    /\ klines = <<>>
    /\ lookback = DefaultLookback
    /\ vol_analysis = [status |-> "none"]
    /\ \E ks \in KlinesCases, cp \in PriceCases, t \in SummaryTickerCases,
          f \in SummaryFundingCases, oi \in SummaryOpenInterestCases,
          ob \in SummaryBookCases :
          payload = SummaryPayload(ks, cp, t, f, oi, ob)
    /\ report = [status |-> "none"]
    /\ summary = Ret(NoKeys)
    /\ NoRun

\* json_summary.main: summary = summarize(data)
SummarizePayload ==
    /\ stage = "call"
    /\ summary' = Summarize(payload)
    /\ stage' = "return"
    /\ UNCHANGED <<exchange, symbol, raw_klines, normalized, records, result,
                   klines, lookback, vol_analysis, payload, report>>
    /\ UNCHANGED run_vars

NextSummary == SummarizePayload

SpecSummary == InitSummary /\ [][NextSummary]_vars

(***************************************************************************)
(* Claims about the Summarizer (checked under SpecSummary)                 *)
(***************************************************************************)
Summarized == stage = "return" /\ summary.raised = "none"

StoredKlines == Get(payload, "klines", <<>>)

StrictlyMonotonic(ks) ==
    \/ \A j \in 1..(Len(ks) - 1) : ks[j].open_time < ks[j + 1].open_time
    \/ \A j \in 1..(Len(ks) - 1) : ks[j].open_time > ks[j + 1].open_time

\* The candle with the greatest open_time.
NewestCandle(ks) ==
    ks[CHOOSE j \in 1..Len(ks) : \A i \in 1..Len(ks) : ks[j].open_time >= ks[i].open_time]

IndicatorFields == {"ma20", "ma50", "rsi14", "atr14", "atr14_pct", "volatility_20_pct"}

\* C19: for a non-empty candle sequence whose open_time is strictly
\* monotonic, stored most-recent-first or oldest-first, the summary is
\* produced and its candle fields (kline_close, open, high, low and the
\* indicator fields) are those of the candle with the greatest open_time.
C19_SummaryReadsNewestCandle ==
    (stage = "return" /\ StoredKlines # <<>> /\ StrictlyMonotonic(StoredKlines)) =>
        LET c == NewestCandle(StoredKlines)
        IN  /\ summary.raised = "none"
            /\ summary.value["kline_close"] = c.close
            /\ summary.value["open"] = c.open
            /\ summary.value["high"] = c.high
            /\ summary.value["low"] = c.low
            /\ \A f \in IndicatorFields :
                  /\ Has(summary.value, f) <=> Has(c, f)
                  /\ Has(c, f) => summary.value[f] = c[f]

C19_Witness ==
    /\ Summarized
    /\ Len(StoredKlines) = 21
    /\ StoredKlines[1].open_time = 21
    /\ StoredKlines[21].open_time = 1
    /\ Has(StoredKlines[21], "rsi14")
    /\ summary.value["kline_close"] = StoredKlines[1].close
    /\ summary.value["kline_close"] # StoredKlines[21].close
    /\ ~Has(summary.value, "rsi14")

\* C20: current_price is the price of the current-price snapshot whenever
\* the snapshot is present, and otherwise the close of the latest candle;
\* a payload of exactly one candle and no auxiliary data gives
\* current_price equal to that candle's close and no indicator field.
C20_CurrentPrice ==
    Summarized =>
        /\ Has(payload, "current_price")
              => summary.value["current_price"] = payload["current_price"].price
        /\ (~Has(payload, "current_price") /\ StrictlyMonotonic(StoredKlines))
              => summary.value["current_price"] = NewestCandle(StoredKlines).close
        /\ (Len(StoredKlines) = 1 /\ DOMAIN payload \subseteq {"klines", "exchange"})
              => /\ summary.value["current_price"] = StoredKlines[1].close
                 /\ \A f \in IndicatorFields : ~Has(summary.value, f)

C20_Witness ==
    /\ Summarized
    /\ Has(payload, "current_price")
    /\ payload["current_price"].price = 0
    /\ summary.value["current_price"] = 0
    /\ summary.value["kline_close"] > 0

\* The summary fields derived from each auxiliary snapshot of the payload.
DerivedFields ==
    [ticker_24hr   |-> {"change_24h_pct", "high_24h", "low_24h", "volume_24h",
                        "quote_volume_24h"},
     funding_rate  |-> {"funding_rate", "next_funding_time"},
     open_interest |-> {"open_interest"},
     order_book    |-> {"order_book_imbalance"}]

AbsentFieldsOf(snapshots) ==
    \A s \in snapshots :
        ~Has(payload, s) => \A f \in DerivedFields[s] : ~Has(summary.value, f)

\* C21: in every summary produced, each field derived from an auxiliary
\* snapshot (ticker, funding rate, open interest, order book) that is absent
\* from the payload is absent (None), never 0.
C21_AbsencePropagates == Summarized => AbsentFieldsOf(DOMAIN DerivedFields)

\* The part of C21 that the code satisfies: ticker, funding rate and open
\* interest.
C21_AbsencePropagatesButBook ==
    Summarized => AbsentFieldsOf(DOMAIN DerivedFields \ {"order_book"})

C21_BookAbsentGivesZero ==
    /\ Summarized
    /\ ~Has(payload, "order_book")
    /\ Has(summary.value, "order_book_imbalance")
    /\ summary.value["order_book_imbalance"].num = 0

SummarySignals == summary.value["signals"]

\* The tests of the RSI label in the order of the claim, rsi in units of
\* 10^-2, and the label of each.
RsiTests(r) == <<r < 2000, r < 3000, r > 8000, r > 7000, r > 5000, r > 3000>>

RsiLabels ==
    <<"extreme_oversold", "oversold", "extreme_overbought", "overbought",
      "bullish", "bearish">>

FirstSatisfied(tests) ==
    {j \in 1..Len(tests) : tests[j] /\ \A i \in 1..(j - 1) : ~tests[i]}

\* C22: the summary's rsi_status is the label of the first test, in the
\* order extreme_oversold (< 20), oversold (< 30), extreme_overbought
\* (> 80), overbought (> 70), bullish (> 50), bearish (> 30), that rsi14
\* satisfies; an extreme label wins over the broader band that also
\* matches, and no second label is assigned.
C22_RsiLabelPriority ==
    (Summarized /\ Has(summary.value, "rsi14")) =>
        LET tests == RsiTests(summary.value["rsi14"])
        IN  \A j \in FirstSatisfied(tests) :
                /\ Has(SummarySignals, "rsi_status")
                /\ SummarySignals["rsi_status"] = RsiLabels[j]

C22_Witness ==
    /\ Summarized
    /\ Has(summary.value, "rsi14")
    /\ summary.value["rsi14"] = 8001
    /\ RsiTests(summary.value["rsi14"])[4]
    /\ SummarySignals["rsi_status"] = "extreme_overbought"

\* C30: analyze_signals assigns no rsi_status exactly when rsi14 is absent
\* or equals 30; every other rsi14 in [0, 100] gets one rsi_status, and the
\* boundary values 20, 50, 70 and 80 are labelled oversold, bearish, bullish
\* and overbought.
C30_RsiUnlabelledOnlyAtThirty ==
    Summarized =>
        LET r == summary.value["rsi14"]
            boundary == (2000 :> "oversold") @@ (5000 :> "bearish")
                        @@ (7000 :> "bullish") @@ (8000 :> "overbought")
        IN  /\ ~Has(SummarySignals, "rsi_status")
                <=> (~Has(summary.value, "rsi14") \/ r = 3000)
            /\ Has(SummarySignals, "rsi_status")
                => SummarySignals["rsi_status"] \in {RsiLabels[j] : j \in 1..Len(RsiLabels)}
            /\ (Has(summary.value, "rsi14") /\ r \in DOMAIN boundary)
                => SummarySignals["rsi_status"] = boundary[r]

C30_Witness ==
    /\ Summarized
    /\ Has(summary.value, "rsi14")
    /\ summary.value["rsi14"] = 3000
    /\ ~Has(SummarySignals, "rsi_status")
    /\ ~Has(SummarySignals, "rsi_level")

NewestFirst(ks) == \A j \in 1..(Len(ks) - 1) : ks[j].open_time > ks[j + 1].open_time

OldestFirst(ks) == \A j \in 1..(Len(ks) - 1) : ks[j].open_time < ks[j + 1].open_time

\* volume_ratio and volume_status as C23 states them for a latest volume v
\* and the sum of the 20 preceding volumes: the ratio v / (sum / 20)
\* rounded to units of 10^-2, with 0 for a zero mean.
ClaimedVolumeRatio(v, sum) == IF sum = 0 THEN 0 ELSE RoundHalfEven(v * 20 * 100, sum)

ClaimedVolumeStatus(v, sum) ==
    IF sum = 0 THEN "low"
    ELSE IF v * 20 > 3 * sum THEN "extreme_spike"
    ELSE IF v * 20 > 2 * sum THEN "spike"
    ELSE IF v * 20 * 2 > 3 * sum THEN "elevated"
    ELSE IF v * 20 * 2 < sum THEN "low"
    ELSE "normal"

VolumeSignalsAre(v, sum) ==
    /\ SummarySignals["volume_ratio"] = ClaimedVolumeRatio(v, sum)
    /\ SummarySignals["volume_status"] = ClaimedVolumeStatus(v, sum)

\* C23: for a most-recent-first sequence of at least 21 candles, the
\* summary's volume_ratio is the volume of the candle with the greatest
\* open_time (the first of the list) over the mean volume of the 20 candles
\* that precede it in time (places 2 to 21 of the list), and volume_status
\* is extreme_spike above 3, spike above 2, elevated above 1.5, low below
\* 0.5, else normal; a zero mean gives ratio 0.
C23_VolumeRatioOfNewestCandle ==
    (Summarized /\ Len(StoredKlines) >= 21 /\ NewestFirst(StoredKlines)) =>
        VolumeSignalsAre(StoredKlines[1].volume,
                         SumSeq([j \in 1..20 |-> StoredKlines[j + 1].volume]))

\* What the code computes on any list of at least 21 candles: the last
\* element over the 20 elements before it in list order; on a list stored
\* oldest first that is the statement of C23.
C23_VolumeRatioOfLastElement ==
    (Summarized /\ Len(StoredKlines) >= 21) =>
        LET n == Len(StoredKlines)
        IN  VolumeSignalsAre(StoredKlines[n].volume,
                             SumSeq([j \in 1..20 |-> StoredKlines[n - j].volume]))

C23_NewestSpikeReadAsNormal ==
    /\ Summarized
    /\ Len(StoredKlines) = 21
    /\ NewestFirst(StoredKlines)
    /\ StoredKlines[1].volume = 13
    /\ \A j \in 2..21 : StoredKlines[j].volume = 4
    /\ SummarySignals["volume_ratio"] = 90
    /\ SummarySignals["volume_status"] = "normal"

VolumeStatusesReached(st) ==
    /\ Summarized
    /\ Len(StoredKlines) >= 21
    /\ SummarySignals["volume_status"] = st

(***************************************************************************)
(* The pipeline: crypto_fetcher.collect_snapshot_async (kline fetch, then  *)
(* calculate_indicators, then the payload) followed by json_summary.main   *)
(* with --volatility on that payload (summarize and                        *)
(* detect_volatility_expansion_signals).  The upstream sends its candles   *)
(* in its native order, Binance oldest first and OKX newest first; a       *)
(* candle is identified by its open time t = 1..n, 1 the oldest.           *)
(***************************************************************************)
MaxPipelineKlines == 21

PipelineLengths == {0, 1, 2, MinHistory, MaxPipelineKlines, Ma50Window}

\* The raw entry of the candle with open time t: the prices of MkCandle at
\* chronological index t - 1.
PipelineEntry(shape, t) ==
    LET close == ShapeClose(shape, t - 1)
        spread == IF shape = "flat" THEN 0 ELSE 1 + (t % 2)
    IN  [is_list |-> TRUE,
         fields  |-> <<t, close, close + spread, Max2(0, close - (spread \div 2)), close,
                       IF t % 5 = 0 THEN 13 ELSE 4, t + 1, 200 + t, 50 + t>>]

\* The upstream's response for n candles.
UpstreamKlines(exch, shape, n) ==
    [k \in 1..n |-> PipelineEntry(shape, IF exch = "binance" THEN k ELSE n + 1 - k)]

\* The five other snapshots collect_snapshot_async gathers.
PipelineSnapshots ==
    [ticker_24hr   |-> [symbol |-> "BTCUSDT", priceChangePercent |-> 5, highPrice |-> 13,
                        lowPrice |-> 4, volume |-> 100, quoteVolume |-> 1000],
     funding_rate  |-> [symbol |-> "BTCUSDT", lastFundingRate |-> 2, nextFundingTime |-> 99],
     open_interest |-> [symbol |-> "BTCUSDT", openInterest |-> 5],
     current_price |-> [symbol |-> "BTCUSDT", price |-> 12],
     order_book    |-> [bids |-> <<<<100, 5>>, <<99, 3>>>>, asks |-> <<<<101, 1>>>>]]

\* collect_snapshot_async: the kline fetch of the exchange, the check for an
\* empty list, calculate_indicators, and the payload dict
CollectSnapshotOf(exch, sym, raw) ==
    LET fetched == IF exch = "binance" THEN NormalizeBinance(sym, raw)
                   ELSE NormalizeOkx(sym, raw)
    IN  IF fetched.raised # "none" THEN fetched
        ELSE IF fetched.value = <<>> THEN Raise(ValueError, "collect_snapshot_async")
        ELSE LET enriched == CalculateIndicatorsOf(fetched.value)
             IN  IF enriched.raised # "none" THEN enriched
                 ELSE Ret(("exchange" :> exch) @@ ("klines" :> enriched.value)
                          @@ PipelineSnapshots)

InitPipeline ==
    /\ stage = "call"
    /\ exchange \in {"binance", "okx"}
    /\ symbol \in Symbols
    /\ \E shape \in Shapes, n \in PipelineLengths :
          raw_klines = UpstreamKlines(exchange, shape, n)
    /\ normalized = Ret(<<>>)
    /\ records = <<>>
    /\ result = Ret(<<>>)
    /\ klines = <<>>
    /\ lookback = DefaultLookback
    /\ vol_analysis = [status |-> "none"]
    /\ payload = NoKeys
    /\ report = [status |-> "none"]
    /\ summary = Ret(NoKeys)
    /\ NoRun

\* crypto_fetcher._run_full_task: the snapshot is collected and saved, or
\* the task fails
CollectSnapshot ==
    /\ stage = "call"
    /\ LET fetched == IF exchange = "binance" THEN NormalizeBinance(symbol, raw_klines)
                      ELSE NormalizeOkx(symbol, raw_klines)
           collected == CollectSnapshotOf(exchange, symbol, raw_klines)
       IN  /\ normalized' = fetched
           /\ records' = fetched.value
           /\ result' = IF fetched.value = <<>> THEN result
                        ELSE CalculateIndicatorsOf(fetched.value)
           /\ payload' = IF collected.raised = "none" THEN collected.value ELSE payload
           /\ stage' = IF collected.raised = "none" THEN "saved" ELSE "failed"
    /\ UNCHANGED <<exchange, symbol, raw_klines, klines, lookback, vol_analysis,
                   report, summary>>
    /\ UNCHANGED run_vars

\* json_summary.main --volatility on the saved payload: summarize(data),
\* then detect_volatility_expansion_signals on data's klines and snapshots
SummaryMain ==
    /\ stage = "saved"
    /\ klines' = Get(payload, "klines", <<>>)
    /\ summary' = Summarize(payload)
    /\ report' = DetectVolatilityExpansionSignals(klines', payload)
    /\ vol_analysis' = IF HistoryTooShort(klines') THEN vol_analysis
                       ELSE VolatilityRegime(klines', DefaultLookback)
    /\ stage' = "return"
    /\ UNCHANGED <<exchange, symbol, raw_klines, normalized, records, result,
                   lookback, payload>>
    /\ UNCHANGED run_vars

NextPipeline == CollectSnapshot \/ SummaryMain

SpecPipeline == InitPipeline /\ [][NextPipeline]_vars

(***************************************************************************)
(* Claims about the pipeline (checked under SpecPipeline)                  *)
(***************************************************************************)
\* The candle whose open_time is the greatest below that of c.
Predecessor(ks, c) ==
    LET older == {j \in 1..Len(ks) : ks[j].open_time < c.open_time}
    IN  ks[CHOOSE j \in older : \A i \in older : ks[j].open_time >= ks[i].open_time]

\* C27: after the pipeline (normalization to a most-recent-first list, then
\* calculate_indicators), the candle the Summarizer selects, the candle the
\* Volatility Regime Classifier reads the current volatility from and the
\* candle the Signal Detector applies its RSI and MA20 rules to are all the
\* candle with the greatest open_time, and the prior close of the MA20
\* rules is that of its chronological predecessor.
C27_OneLatestCandle ==
    (stage = "return" /\ summary.raised = "none") =>
        LET newest == NewestCandle(klines)
            close == newest.close * 100000000
        IN  /\ summary.value["kline_close"] = newest.close
            /\ vol_analysis.status = "ok" =>
                  /\ Has(newest, vol_analysis.volatility_key)
                  /\ vol_analysis.current_volatility = newest[vol_analysis.volatility_key]
            /\ report.status = "ok" =>
                  /\ Emits(report, "rsi_oversold")
                        <=> (Has(newest, "rsi14") /\ newest.rsi14 < 3000)
                  /\ Emits(report, "rsi_overbought")
                        <=> (Has(newest, "rsi14") /\ newest.rsi14 > 7000)
                  /\ \A prior \in {Predecessor(klines, newest).close * 100000000} :
                        /\ Emits(report, "price_breakout_ma20")
                              <=> (Has(newest, "ma20") /\ prior < newest.ma20
                                                       /\ close > newest.ma20)
                        /\ Emits(report, "price_breakdown_ma20")
                              <=> (Has(newest, "ma20") /\ prior > newest.ma20
                                                       /\ close < newest.ma20)

\* The Summarizer's part of C27, which the code satisfies.
C27_SummaryReadsNewest ==
    (stage = "return" /\ summary.raised = "none") =>
        summary.value["kline_close"] = NewestCandle(klines).close

\* The pipeline's list is most-recent-first whichever the exchange.
C27_PipelineNewestFirst == stage \in {"saved", "return"} => NewestFirst(payload["klines"])

\* A rising market of 21 candles: the summary shows the newest candle, the
\* classifier and the detector read the oldest one.
C27_DetectorReadsOldest ==
    /\ stage = "return"
    /\ Len(klines) = 21
    /\ klines[1].open_time = 21
    /\ klines[1].close > klines[21].close
    /\ summary.value["kline_close"] = klines[1].close
    /\ report.status = "ok"
    /\ ~Has(klines[1], "atr14_pct")
    /\ vol_analysis.current_volatility = klines[21]["atr14_pct"]
    /\ Emits(report, "rsi_oversold")

(***************************************************************************)
(* The market snapshot: scripts/market_snapshot.py, build_summary on the   *)
(* filtered tickers and save_snapshot.  A file of the output tree is a     *)
(* path [folder, stamp, tail] (the name is stamp_tail.json) with its       *)
(* content; the time stamp of a name is an integer.                        *)
(***************************************************************************)
MaxTickers == 3

MaxStamp == 2

\* seq[start:] and seq[:stop] of Python for an integer bound: a negative
\* bound counts from the end, and -0 is 0
SliceFrom(seq, start) ==
    LET n == Len(seq)
        from == IF start < 0 THEN Max2(n + start, 0) ELSE Min2(start, n)
    IN  SubSeq(seq, from + 1, n)

SliceTo(seq, stop) ==
    LET n == Len(seq)
        to == IF stop < 0 THEN Max2(n + stop, 0) ELSE Min2(stop, n)
    IN  SubSeq(seq, 1, to)

\* sorted(seq, key=lambda x: x.get(key, 0), reverse=True): descending and
\* stable, equal keys keep their order
RECURSIVE SortedDescending(_, _)
SortedDescending(seq, key) ==
    IF seq = <<>> THEN <<>>
    ELSE LET rest == SortedDescending(SubSeq(seq, 1, Len(seq) - 1), key)
             x == seq[Len(seq)]
             before == SelectSeq(rest, LAMBDA y : Get(y, key, 0) >= Get(x, key, 0))
             after == SelectSeq(rest, LAMBDA y : Get(y, key, 0) < Get(x, key, 0))
         IN  before \o <<x>> \o after

\* sorted_change[-top:][::-1]: line 224
TopLosers(sorted_change, n) == Reverse(SliceFrom(sorted_change, 0 - n))

\* sorted_change[:top]: line 223
TopGainers(sorted_change, n) == SliceTo(sorted_change, n)

\* build_summary(exchange, tickers, volume_key, change_key, top): lines
\* 207-226, without generated_at
BuildSummary(exch, ts, volume_key, change_key, n) ==
    LET sorted_volume == SortedDescending(ts, volume_key)
        sorted_change == SortedDescending(ts, change_key)
    IN  [exchange      |-> exch,
         total_symbols |-> Len(ts),
         top_volume    |-> SliceTo(sorted_volume, n),
         top_gainers   |-> TopGainers(sorted_change, n),
         top_losers    |-> TopLosers(sorted_change, n)]

\* The JSON files of a folder.
JsonFiles(fs, folder) == {p \in DOMAIN fs : p.folder = folder}

\* fs with the file p (over)written and the files of gone removed.
Written(fs, p, content, gone) ==
    [q \in (DOMAIN fs \cup {p}) \ gone |-> IF q = p THEN content ELSE fs[q]]

\* save_snapshot(summary, exchange): lines 229-236, with
\* cleanup_old_snapshots(folder, keep=1): every file of the folder but the
\* last in name order is removed
SaveSnapshot(fs, exch, stamp, content) ==
    LET folder == <<exch, "_snapshot">>
        p == [folder |-> folder, stamp |-> stamp, tail |-> "snapshot"]
        present == JsonFiles(fs, folder) \cup {p}
        last == CHOOSE q \in present : \A r \in present : r.stamp <= q.stamp
    IN  Written(fs, p, content, present \ {last})

\* The filtered tickers: quote volume and percent change from small sets,
\* symbols by position.
TickerSymbols == <<"BTCUSDT", "ETHUSDT", "SOLUSDT", "XRPUSDT", "BNBUSDT">>

FilteredTicker(k, v, c) ==
    [symbol |-> TickerSymbols[k], quoteVolume |-> v, priceChangePercent |-> c]

TickerLists(n) ==
    {[k \in 1..n |-> FilteredTicker(k, vc[k][1], vc[k][2])] :
        vc \in [1..n -> {100, 200} \X {-5, 0, 5}]}

InitSnapshot ==
    /\ stage = "call"
    /\ exchange \in {"binance", "okx"}
    /\ symbol = "BTCUSDT"
    /\ raw_klines = <<>>
    /\ normalized = Ret(<<>>)
    /\ records = <<>>
    /\ result = Ret(<<>>)
    /\ klines = <<>>
    /\ lookback = 0
    /\ vol_analysis = [status |-> "none"]
    /\ payload = NoKeys
    /\ report = [status |-> "none"]
    /\ summary = Ret(NoKeys)
    /\ \E n \in 0..MaxTickers : tickers \in TickerLists(n)
    /\ top_n \in -1..(MaxTickers + 1)
    /\ snapshot = NoKeys
    /\ files \in {NoKeys,
                  [folder |-> <<exchange, "_snapshot">>, stamp |-> 1, tail |-> "snapshot"]
                      :> NoKeys}
    /\ limiter = <<>> /\ position = <<>> /\ upstream = <<>> /\ jobs = <<>> /\ outcome = <<>>

\* market_snapshot.main from the filtered tickers on: summarize_binance or
\* summarize_okx, the filters entry, save_snapshot
MarketSnapshot ==
    /\ stage = "call"
    /\ snapshot' = [filters |-> [quote_assets |-> <<"USDT">>, top |-> top_n]]
                   @@ BuildSummary(exchange, tickers, "quoteVolume",
                                   "priceChangePercent", top_n)
    /\ \E stamp \in 1..MaxStamp : files' = SaveSnapshot(files, exchange, stamp, snapshot')
    /\ stage' = "return"
    /\ UNCHANGED <<exchange, symbol, raw_klines, normalized, records, result,
                   klines, lookback, vol_analysis, payload, report, summary>>
    /\ UNCHANGED <<tickers, top_n, limiter, position, upstream, jobs, outcome>>

NextSnapshot == MarketSnapshot

SpecSnapshot == InitSnapshot /\ [][NextSnapshot]_vars

(***************************************************************************)
(* Claims about the market snapshot (checked under SpecSnapshot)           *)
(***************************************************************************)
DescendingBy(seq, key) == \A j \in 1..(Len(seq) - 1) : seq[j][key] >= seq[j + 1][key]

AscendingBy(seq, key) == \A j \in 1..(Len(seq) - 1) : seq[j][key] <= seq[j + 1][key]

ListsOf(snap) == {snap.top_volume, snap.top_gainers, snap.top_losers}

\* C26: in a snapshot built with top = N >= 0, each of top_volume,
\* top_gainers and top_losers has exactly min(N, number of tickers)
\* entries, top_volume is in non-increasing order of quote volume,
\* top_gainers in non-increasing and top_losers in non-decreasing order of
\* percent change.
C26_TopListsBounded ==
    (stage = "return" /\ top_n >= 0) =>
        /\ \A l \in ListsOf(snapshot) : Len(l) = Min2(top_n, Len(tickers))
        /\ DescendingBy(snapshot.top_volume, "quoteVolume")
        /\ DescendingBy(snapshot.top_gainers, "priceChangePercent")
        /\ AscendingBy(snapshot.top_losers, "priceChangePercent")

\* The same for N >= 1, which the code satisfies, with the content of the
\* lists: the N greatest volumes, the N greatest and the N smallest
\* changes.
C26_TopListsForPositiveTop ==
    (stage = "return" /\ top_n >= 1) =>
        /\ \A l \in ListsOf(snapshot) : Len(l) = Min2(top_n, Len(tickers))
        /\ DescendingBy(snapshot.top_volume, "quoteVolume")
        /\ DescendingBy(snapshot.top_gainers, "priceChangePercent")
        /\ AscendingBy(snapshot.top_losers, "priceChangePercent")
        /\ \A k \in 1..Len(tickers) :
              /\ (\A j \in 1..Len(snapshot.top_gainers) : snapshot.top_gainers[j] # tickers[k])
                    => \A j \in 1..Len(snapshot.top_gainers) :
                          snapshot.top_gainers[j].priceChangePercent
                              >= tickers[k].priceChangePercent
              /\ (\A j \in 1..Len(snapshot.top_losers) : snapshot.top_losers[j] # tickers[k])
                    => \A j \in 1..Len(snapshot.top_losers) :
                          snapshot.top_losers[j].priceChangePercent
                              <= tickers[k].priceChangePercent

\* With top = 0 and three tickers, top_losers holds all three.
C26_ZeroTopListsEveryLoser ==
    /\ stage = "return"
    /\ top_n = 0
    /\ Len(tickers) = 3
    /\ snapshot.top_volume = <<>>
    /\ snapshot.top_gainers = <<>>
    /\ Len(snapshot.top_losers) = 3

(***************************************************************************)
(* Storage: crypto_analyzer/storage.py, build_output_path, save_json and   *)
(* cleanup_old_files.  The output tree holds JSON files only; a file of    *)
(* save_json is [folder, stamp, tail] with tail the candle count of its    *)
(* name stamp_count.json.  datetime.now() is an input of each call.        *)
(***************************************************************************)
MaxSaved == 2

Intervals == {"1h", "4/h"}

\* interval.replace("/", "-") on the intervals of the model
IntervalToken(interval) == IF interval = "4/h" THEN "4-h" ELSE interval

\* build_output_path(exchange, symbol, interval, records) at time stamp;
\* exchange.lower() leaves the two exchange names as they are
BuildOutputPath(exch, sym, interval, recs, stamp) ==
    [folder |-> <<exch, Upper(sym), IntervalToken(interval)>>,
     stamp  |-> stamp,
     tail   |-> IF recs # <<>> THEN Len(recs) ELSE 0]

\* The cleanup that keeps the file whose name is the last in name order.
CleanupKeepLastName(fs, keep_file) ==
    LET json_files == JsonFiles(fs, keep_file.folder)
        last == CHOOSE q \in json_files : \A r \in json_files :
                    \/ r.stamp < q.stamp
                    \/ r.stamp = q.stamp /\ r.tail <= q.tail
    IN  [q \in DOMAIN fs \ (json_files \ {last}) |-> fs[q]]

\* cleanup_old_files(keep_file): lines 33-49, no unlink failing
CleanupOldFiles(fs, keep_file) ==
    LET json_files == JsonFiles(fs, keep_file.folder)
    IN  IF Cardinality(json_files) <= 1 THEN fs
        ELSE [q \in DOMAIN fs \ (json_files \ {keep_file}) |-> fs[q]]

\* save_json(data, output_path): lines 26-30
SaveJson(fs, data, output_path) ==
    CleanupOldFiles(Written(fs, output_path, data, {}), output_path)

\* The data of a snapshot: its candles, told apart by their close.
SavedData ==
    {[exchange |-> "binance", klines |-> [k \in 1..n |-> [open_time |-> k, close |-> c]]] :
        n \in 1..MaxSaved, c \in {10, 11}}

\* Files left by earlier runs.
StaleFiles ==
    {[folder |-> <<"binance", "BTCUSDT", "1h">>, stamp |-> 1, tail |-> 1],
     [folder |-> <<"binance", "BTCUSDT", "1h">>, stamp |-> 2, tail |-> 2],
     [folder |-> <<"binance", "BTCUSDT", "4-h">>, stamp |-> 2, tail |-> 1],
     [folder |-> <<"okx", "BTCUSDT", "1h">>, stamp |-> 1, tail |-> 1]}

InitStorage ==
    /\ stage = "call"
    /\ exchange \in {"binance", "okx"}
    /\ symbol = "BTCUSDT"
    /\ raw_klines = <<>>
    /\ normalized = Ret(<<>>)
    /\ records = <<>>
    /\ result = Ret(<<>>)
    /\ klines = <<>>
    /\ lookback = 0
    /\ vol_analysis = [status |-> "none"]
    /\ payload = NoKeys
    /\ report = [status |-> "none"]
    /\ summary = Ret(NoKeys)
    /\ tickers = <<>> /\ top_n = 0 /\ snapshot = <<>>
    /\ \E stale \in SUBSET StaleFiles : files = [q \in stale |-> NoKeys]
    /\ limiter = <<>> /\ position = <<>> /\ upstream = <<>> /\ jobs = <<>> /\ outcome = <<>>

\* crypto_fetcher._run_full_task once the snapshot is collected:
\* build_output_path and save_json; payload is the data saved and result
\* the path it went to
SaveSnapshotFile ==
    /\ \E sym \in Symbols, interval \in Intervals, data \in SavedData,
          stamp \in 1..MaxStamp :
          LET output_path == BuildOutputPath(exchange, sym, interval, data.klines, stamp)
          IN  /\ payload' = data
              /\ result' = Ret(output_path)
              /\ files' = SaveJson(files, data, output_path)
    /\ stage' = "saved"
    /\ UNCHANGED <<exchange, symbol, raw_klines, normalized, records, klines,
                   lookback, vol_analysis, report, summary>>
    /\ UNCHANGED <<tickers, top_n, snapshot, limiter, position, upstream, jobs, outcome>>

NextStorage == SaveSnapshotFile

SpecStorage == InitStorage /\ [][NextStorage]_vars

(***************************************************************************)
(* Claims about storage (checked under SpecStorage)                        *)
(***************************************************************************)
\* C25: after every successful save_json call the directory written to
\* holds exactly one JSON file, the one of that call with that call's
\* content, and the files of every other directory are what they were; so
\* after any sequence of calls into a directory it holds the file of the
\* most recent one.
C25_OneFilePerDirectory ==
    [][stage' = "saved" =>
          LET output_path == result'.value
          IN  /\ JsonFiles(files', output_path.folder) = {output_path}
              /\ files'[output_path] = payload'
              /\ \A q \in (DOMAIN files \cup DOMAIN files') :
                    q.folder # output_path.folder =>
                        /\ q \in DOMAIN files /\ q \in DOMAIN files'
                        /\ files'[q] = files[q]]_vars

\* The state form: the directory of the most recent call holds that call's
\* file and nothing else.
C25_LastSaveIsTheOnlyFile ==
    stage = "saved" =>
        /\ JsonFiles(files, result.value.folder) = {result.value}
        /\ files[result.value] = payload

\* A save at time 1 into a directory holding a file stamped 2: the older
\* name is the one that stays.
C25_Witness ==
    /\ stage = "saved"
    /\ result.value.stamp = 1
    /\ result.value.folder = <<"binance", "BTCUSDT", "1h">>
    /\ JsonFiles(files, <<"binance", "BTCUSDT", "1h">>) = {result.value}
    /\ files[result.value] = payload
    /\ [folder |-> <<"okx", "BTCUSDT", "1h">>, stamp |-> 1, tail |-> 1] \in DOMAIN files

(***************************************************************************)
(* The fetch coroutines and the rate limiter: crypto_analyzer/             *)
(* rate_limiter.py (AsyncConcurrencyLimiter over asyncio.Semaphore and     *)
(* asyncio.Lock, both first-in first-out) and the fetch functions of       *)
(* fetchers/binance.py and fetchers/okx.py.  The event loop runs one       *)
(* coroutine at a time up to its next await, so a step is the code between *)
(* two suspensions.  Time is counted in ticks; the limiter reads it only   *)
(* as now - _last_acquire, kept as since_last_acquire and saturated at the *)
(* interval, like the time since the upstream's last admitted request.     *)
(* The limits are scaled: max_concurrent is 1..MaxConcurrent for the 10 of *)
(* config.py, the interval MinInterval ticks for its 0.05 s.               *)
(***************************************************************************)
MaxConcurrent == 2

MinInterval == 2

NumTasks == MaxConcurrent + 1

Tasks == 1..NumTasks

\* The state the limiter code works on: the limiter, the coroutines and the
\* upstream.
FetchState == [lim |-> limiter, pos |-> position, up |-> upstream]

\* The request of coroutine t goes out: client.get(...) is awaited
Admit(S, t) ==
    [S EXCEPT !.pos[t] = "in_flight",
              !.up = [since_admit |-> 0,
                      closest     |-> Min2(S.up.closest, S.up.since_admit)]]

\* asyncio.Lock.release: the first waiter, if any, gets the lock
ReleaseLock(S) ==
    IF S.lim.lock_waiters = <<>> THEN [S EXCEPT !.lim.locked_by = 0]
    ELSE LET w == Head(S.lim.lock_waiters)
         IN  [S EXCEPT !.lim.locked_by = w,
                       !.lim.lock_waiters = Tail(S.lim.lock_waiters),
                       !.pos[w] = "lock_granted"]

\* lines 35-37: self._last_acquire = now, the lock is left, the block is
\* entered
StampAndEnter(S, t) ==
    Admit(ReleaseLock([S EXCEPT !.lim.since_last_acquire = 0]), t)

\* lines 28-33 with the lock held: sleep for the rest of the interval
UnderLock(S, t) ==
    LET wait_for == S.lim.min_interval - S.lim.since_last_acquire
    IN  IF wait_for > 0
        THEN [S EXCEPT !.pos[t] = "sleeping", !.lim.sleep_left = wait_for]
        ELSE StampAndEnter(S, t)

\* lines 24-27 with a permit held: no interval, or the lock
AfterSem(S, t) ==
    IF S.lim.min_interval <= 0 THEN Admit(S, t)
    ELSE IF S.lim.locked_by = 0 /\ S.lim.lock_waiters = <<>>
    THEN UnderLock([S EXCEPT !.lim.locked_by = t], t)
    ELSE [S EXCEPT !.lim.lock_waiters = Append(@, t), !.pos[t] = "lock_wait"]

\* line 23, await self._sem.acquire(): a permit at once when one is free
\* and nobody is queued, else the queue
AEnter(S, t) ==
    IF /\ S.lim.value > 0
       /\ S.lim.sem_waiters = <<>>
       /\ \A u \in Tasks : S.pos[u] # "sem_granted"
    THEN AfterSem([S EXCEPT !.lim.value = @ - 1], t)
    ELSE [S EXCEPT !.lim.sem_waiters = Append(@, t), !.pos[t] = "sem_wait"]

\* An exit that keeps the permit.
AExitKeepsPermit(S) == S

\* lines 39-41, self._sem.release(): the permit goes to the first waiter, or
\* back to the semaphore
AExit(S) ==
    IF S.lim.sem_waiters = <<>> THEN [S EXCEPT !.lim.value = @ + 1]
    ELSE LET w == Head(S.lim.sem_waiters)
         IN  [S EXCEPT !.lim.sem_waiters = Tail(S.lim.sem_waiters),
                       !.pos[w] = "sem_granted"]

\* Whether the fetch functions of the exchange run their request inside
\* `async with <limiter>`: binance.py:43 does, okx.py:60 does not
Guarded(exch) == exch = "binance"

Becomes(S) ==
    /\ limiter' = S.lim
    /\ position' = S.pos
    /\ upstream' = S.up

InitFetch ==
    /\ stage = "call"
    /\ exchange \in {"binance", "okx"}
    /\ symbol = "BTCUSDT"
    /\ raw_klines = <<>>
    /\ normalized = Ret(<<>>)
    /\ records = <<>>
    /\ result = Ret(<<>>)
    /\ klines = <<>>
    /\ lookback = 0
    /\ vol_analysis = [status |-> "none"]
    /\ payload = NoKeys
    /\ report = [status |-> "none"]
    /\ summary = Ret(NoKeys)
    /\ tickers = <<>> /\ top_n = 0 /\ snapshot = <<>> /\ files = <<>>
    /\ \E max_concurrent \in 1..MaxConcurrent, min_interval \in {0, MinInterval},
          since \in {0, MinInterval} :
          limiter = [max_concurrent     |-> max_concurrent,
                     min_interval       |-> min_interval,
                     value              |-> max_concurrent,
                     sem_waiters        |-> <<>>,
                     locked_by          |-> 0,
                     lock_waiters       |-> <<>>,
                     since_last_acquire |-> since,
                     sleep_left         |-> 0]
    /\ position = [t \in Tasks |-> "created"]
    /\ upstream = [since_admit |-> MinInterval, closest |-> MinInterval]
    /\ jobs = <<>> /\ outcome = <<>>

FetchUnchanged ==
    UNCHANGED <<stage, exchange, symbol, raw_klines, normalized, records, result,
                klines, lookback, vol_analysis, payload, report, summary,
                tickers, top_n, snapshot, files, jobs, outcome>>

\* A fetch coroutine starts: `async with binance_public_limiter:` for
\* Binance, the request itself for OKX
Start(t) ==
    /\ position[t] = "created"
    /\ Becomes(IF Guarded(exchange) THEN AEnter(FetchState, t) ELSE Admit(FetchState, t))
    /\ FetchUnchanged

\* A coroutine handed a permit resumes after line 23
ResumeWithPermit(t) ==
    /\ position[t] = "sem_granted"
    /\ Becomes(AfterSem(FetchState, t))
    /\ FetchUnchanged

\* A coroutine handed the lock resumes at line 28
ResumeWithLock(t) ==
    /\ position[t] = "lock_granted"
    /\ Becomes(UnderLock(FetchState, t))
    /\ FetchUnchanged

\* asyncio.sleep(wait_for) is over: lines 34-37
WakeUp(t) ==
    /\ position[t] = "sleeping"
    /\ limiter.sleep_left = 0
    /\ Becomes(StampAndEnter(FetchState, t))
    /\ FetchUnchanged

\* The response arrives and the block is left
Respond(t) ==
    /\ position[t] = "in_flight"
    /\ LET S == [FetchState EXCEPT !.pos[t] = "returned"]
       IN  Becomes(IF Guarded(exchange) THEN AExit(S) ELSE S)
    /\ FetchUnchanged

\* client.get raises (httpx.HTTPError): __aexit__ runs and returns False,
\* the exception leaves the block
RequestRaises(t) ==
    /\ position[t] = "in_flight"
    /\ LET S == [FetchState EXCEPT !.pos[t] = "raised"]
       IN  Becomes(IF Guarded(exchange) THEN AExit(S) ELSE S)
    /\ FetchUnchanged

\* One tick of loop.time()
Tick ==
    /\ \/ limiter.since_last_acquire < MinInterval
       \/ limiter.sleep_left > 0
       \/ upstream.since_admit < MinInterval
    /\ limiter' = [limiter EXCEPT
                      !.since_last_acquire = Min2(@ + 1, MinInterval),
                      !.sleep_left = Max2(@ - 1, 0)]
    /\ upstream' = [upstream EXCEPT !.since_admit = Min2(@ + 1, MinInterval)]
    /\ UNCHANGED position
    /\ FetchUnchanged

NextFetch ==
    \/ \E t \in Tasks : Start(t)
    \/ \E t \in Tasks : ResumeWithPermit(t)
    \/ \E t \in Tasks : ResumeWithLock(t)
    \/ \E t \in Tasks : WakeUp(t)
    \/ \E t \in Tasks : Respond(t)
    \/ \E t \in Tasks : RequestRaises(t)
    \/ Tick

SpecFetch == InitFetch /\ [][NextFetch]_vars

(***************************************************************************)
(* Claims about the fetch coroutines (checked under SpecFetch)             *)
(***************************************************************************)
InFlight == {t \in Tasks : position[t] = "in_flight"}

\* C24: whichever the upstream, Binance or OKX, at no time are more than
\* max_concurrent of its requests in flight, and no two successive
\* admissions to it are less than the minimum request interval apart.
C24_EveryUpstreamLimited ==
    /\ Cardinality(InFlight) <= limiter.max_concurrent
    /\ upstream.closest >= limiter.min_interval

\* The same for the upstream whose fetch functions use the limiter.
C24_BinanceLimited == exchange = "binance" => C24_EveryUpstreamLimited

\* OKX with every fetch coroutine in flight at once, one more than the
\* limit, the last two admitted in the same tick.
C24_OkxUnlimited ==
    /\ exchange = "okx"
    /\ InFlight = Tasks
    /\ Cardinality(InFlight) > limiter.max_concurrent
    /\ limiter.min_interval > 0
    /\ upstream.closest = 0
    /\ limiter.value = limiter.max_concurrent

(***************************************************************************)
(* The limiter in use (SpecLimiter): the Binance run of SpecFetch with the *)
(* event loop's scheduling.  Every coroutine that is ready runs, time      *)
(* passes, and every request in flight ends, by a response or by an        *)
(* exception.                                                              *)
(***************************************************************************)
InitLimiter == InitFetch /\ exchange = "binance"

Scheduling ==
    /\ WF_vars(Tick)
    /\ \A t \in Tasks :
          /\ WF_vars(Start(t))
          /\ WF_vars(ResumeWithPermit(t))
          /\ WF_vars(ResumeWithLock(t))
          /\ WF_vars(WakeUp(t))
          /\ WF_vars(Respond(t) \/ RequestRaises(t))

SpecLimiter == InitLimiter /\ [][NextFetch]_vars /\ Scheduling

\* The coroutines that hold a permit: past the semaphore and not yet out of
\* the block.
Holders ==
    {t \in Tasks : position[t] \in {"sem_granted", "lock_wait", "lock_granted",
                                    "sleeping", "in_flight"}}

Waiting == {"sem_wait", "sem_granted", "lock_wait", "lock_granted", "sleeping"}

Left == {"returned", "raised"}

PermitsConserved ==
    /\ limiter.value + Cardinality(Holders) = limiter.max_concurrent
    /\ limiter.value >= 0
    /\ (\A t \in Tasks : position[t] \in Left) => limiter.value = limiter.max_concurrent

\* C28: no permit is lost: the free permits and the permits held always add
\* up to max_concurrent, a coroutine that left the block, by a response or
\* by an exception that goes on to its caller, holds none, and the free
\* permits are max_concurrent again once all have left; and no coroutine
\* waits for ever: a coroutine waiting to enter stops waiting only by being
\* admitted, and eventually every coroutine has been admitted and has left.
C28_NoPermitLostNoDeadlock ==
    /\ []PermitsConserved
    /\ [][\A t \in Tasks :
            (position[t] \in Waiting /\ position'[t] \notin Waiting)
                => position'[t] = "in_flight"]_vars
    /\ [][\A t \in Tasks :
            (position[t] \notin Left /\ position'[t] \in Left)
                => position[t] = "in_flight"]_vars
    /\ <>[](\A t \in Tasks : position[t] \in Left)

\* A request raised while another coroutine was queued for the semaphore,
\* and the permit went on to it.
C28_Witness ==
    /\ exchange = "binance"
    /\ limiter.max_concurrent = 1
    /\ position[1] = "raised"
    /\ position[2] = "in_flight"
    /\ position[3] = "sem_wait"
    /\ limiter.value = 0
    /\ limiter.sem_waiters = <<3>>

(***************************************************************************)
(* The batch run of the fetcher: crypto_fetcher.main, _async_main and      *)
(* _run_full_task (src/scripts/crypto_fetcher.py)                          *)
(*                                                                         *)
(* jobs is the list of tasks _async_main builds, one per (symbol,          *)
(* interval) in loop order.  Each carries what its upstream answers (an    *)
(* input) and where the task stands: "pending", "saved" (returned          *)
(* (True, "")), "failed" (returned (False, msg)), "raised" (an exception   *)
(* left _run_full_task) or "cancelled" (asyncio.run ended the loop before  *)
(* the task finished).  msg is the message of the returned pair, <<>> for  *)
(* the empty string.  outcome is how main ended.                           *)
(***************************************************************************)
MaxJobs == 2

\* The symbols and intervals of the command line, in order.
BatchSymbols == <<"BTCUSDT", "ETHUSDT", "SOLUSDT", "XRPUSDT">>

BatchIntervals == <<"1h", "4/h">>

\* What the upstream of one task answers:
\*   ok          every endpoint answers well-formed data
\*   http_error  a response with an error status (raise_for_status)
\*   api_error   OKX code other than "0", Binance body that is no list/dict
\*   bad_number  a numeric field holding text that is no number
\*   null_field  a numeric field holding null
\*   no_klines   an empty kline list
\*   empty_data  OKX ticker, price or order book answered with "data": []
UpstreamAnswers(exch) ==
    {"ok", "http_error", "api_error", "bad_number", "null_field", "no_klines"}
        \cup (IF exch = "okx" THEN {"empty_data"} ELSE {})

\* The exception collect_snapshot_async ends with on that answer, "none"
\* when it returns the snapshot.
CollectRaises(exch, answer) ==
    CASE answer = "ok"         -> "none"
      [] answer = "http_error" -> "HTTPError"
      [] answer = "api_error"  -> "ValueError"
      [] answer = "bad_number" -> "ValueError"
      [] answer = "null_field" -> "TypeError"
      [] answer = "no_klines"  -> "ValueError"
      [] answer = "empty_data" -> IF exch = "okx" THEN "IndexError" ELSE "none"

\* except (httpx.HTTPError, ValueError, KeyError) of _run_full_task
CaughtByTask == {"HTTPError", "ValueError", "KeyError"}

\* for symbol in symbols: for interval in intervals: tasks.append(...)
BatchTasks(n_symbols, n_intervals) ==
    [j \in 1..(n_symbols * n_intervals) |->
        [symbol   |-> BatchSymbols[((j - 1) \div n_intervals) + 1],
         interval |-> BatchIntervals[((j - 1) % n_intervals) + 1]]]

\* The snapshot a task collects: the candles with their indicators.
BatchData(exch, sym) ==
    [exchange |-> exch, klines |-> <<[symbol |-> sym, open_time |-> 1, close |-> 10]>>]

\* sum(1 for ok, _ in results if ok)
Successes(js) == Cardinality({j \in DOMAIN js : js[j].state = "saved"})

\* [msg for ok, msg in results if not ok and msg], in task order
RECURSIVE FailuresUpTo(_, _)
FailuresUpTo(js, n) ==
    IF n = 0 THEN <<>>
    ELSE IF js[n].state = "failed" /\ js[n].msg # <<>>
         THEN Append(FailuresUpTo(js, n - 1), js[n].msg)
         ELSE FailuresUpTo(js, n - 1)

Failures(js) == FailuresUpTo(js, Len(js))

InitBatch ==
    /\ stage = "call"
    /\ exchange \in {"binance", "okx"}
    /\ symbol = "BTCUSDT"
    /\ raw_klines = <<>>
    /\ normalized = Ret(<<>>)
    /\ records = <<>>
    /\ result = Ret(<<>>)
    /\ klines = <<>>
    /\ lookback = 0
    /\ vol_analysis = [status |-> "none"]
    /\ payload = NoKeys
    /\ report = [status |-> "none"]
    /\ summary = Ret(NoKeys)
    /\ tickers = <<>> /\ top_n = 0 /\ snapshot = <<>>
    /\ files = <<>>
    /\ limiter = <<>> /\ position = <<>> /\ upstream = <<>>
    /\ \E n_symbols \in 1..Min2(MaxJobs, Len(BatchSymbols)),
          n_intervals \in 1..Len(BatchIntervals) :
          /\ n_symbols * n_intervals <= MaxJobs
          /\ \E answers \in [1..(n_symbols * n_intervals) -> UpstreamAnswers(exchange)] :
                jobs = [j \in 1..(n_symbols * n_intervals) |->
                          [symbol   |-> BatchTasks(n_symbols, n_intervals)[j].symbol,
                           interval |-> BatchTasks(n_symbols, n_intervals)[j].interval,
                           answer   |-> answers[j],
                           state    |-> "pending",
                           msg      |-> <<>>]]
    /\ outcome = [phase |-> "gathering", exit_code |-> 0, successes |-> 0,
                  failures |-> <<>>, listed |-> FALSE, error |-> "none"]

BatchUnchanged ==
    UNCHANGED <<stage, exchange, symbol, raw_klines, normalized, records, result,
                klines, lookback, vol_analysis, payload, report, summary,
                tickers, top_n, snapshot, limiter, position, upstream>>

\* _run_full_task of task j, from its start to its return or to the
\* exception that leaves it: lines 178-197
RunFullTask(j) ==
    /\ outcome.phase = "gathering"
    /\ jobs[j].state = "pending"
    /\ LET exc == CollectRaises(exchange, jobs[j].answer)
       IN  IF exc = "none"
           THEN \E stamp \in 1..MaxStamp :
                   LET output_data == BatchData(exchange, jobs[j].symbol)
                       output_path == BuildOutputPath(exchange, jobs[j].symbol,
                                         jobs[j].interval, output_data.klines, stamp)
                   IN  /\ files' = SaveJson(files, output_data, output_path)
                       /\ jobs' = [jobs EXCEPT ![j].state = "saved"]
           ELSE IF exc \in CaughtByTask
           THEN /\ jobs' = [jobs EXCEPT ![j].state = "failed",
                                        ![j].msg = <<jobs[j].symbol, jobs[j].interval, exc>>]
                /\ UNCHANGED files
           ELSE /\ jobs' = [jobs EXCEPT ![j].state = "raised"]
                /\ UNCHANGED files
    /\ UNCHANGED outcome
    /\ BatchUnchanged

\* results = await asyncio.gather(*tasks) returns, and _async_main runs to
\* its end: lines 135-151
GatherReturns ==
    /\ outcome.phase = "gathering"
    /\ \A j \in DOMAIN jobs : jobs[j].state \in {"saved", "failed"}
    /\ LET successes == Successes(jobs)
           failures == Failures(jobs)
       IN  outcome' = [phase     |-> "exited",
                       exit_code |-> IF successes = 0 THEN 1 ELSE 0,
                       successes |-> successes,
                       failures  |-> failures,
                       listed    |-> successes # 0 /\ Len(jobs) > 1 /\ failures # <<>>,
                       error     |-> IF successes = 0 THEN "all_failed" ELSE "none"]
    /\ UNCHANGED <<jobs, files>>
    /\ BatchUnchanged

\* asyncio.gather hands the first exception of a task to _async_main, which
\* it leaves; main catches it and exits 1 (lines 104-110) and asyncio.run
\* cancels the tasks that have not finished
GatherRaises ==
    /\ outcome.phase = "gathering"
    /\ \E j \in DOMAIN jobs : jobs[j].state = "raised"
    /\ LET first == CHOOSE j \in DOMAIN jobs : jobs[j].state = "raised"
       IN  outcome' = [phase |-> "exited", exit_code |-> 1, successes |-> 0,
                       failures |-> <<>>, listed |-> FALSE,
                       error |-> CollectRaises(exchange, jobs[first].answer)]
    /\ jobs' = [j \in DOMAIN jobs |->
                  IF jobs[j].state = "pending"
                  THEN [jobs[j] EXCEPT !.state = "cancelled"]
                  ELSE jobs[j]]
    /\ UNCHANGED files
    /\ BatchUnchanged

NextBatch ==
    \/ \E j \in DOMAIN jobs : RunFullTask(j)
    \/ GatherReturns
    \/ GatherRaises

SpecBatch == InitBatch /\ [][NextBatch]_vars

(***************************************************************************)
(* Claims about the batch run (checked under SpecBatch)                    *)
(***************************************************************************)
\* The tasks whose upstream answer makes them fail.
FailingJobs == {j \in DOMAIN jobs : jobs[j].answer # "ok"}

\* Task j has saved its snapshot: its folder holds its file.
SnapshotSaved(j) ==
    /\ jobs[j].state = "saved"
    /\ \E p \in DOMAIN files :
          /\ p.folder = <<exchange, jobs[j].symbol, IntervalToken(jobs[j].interval)>>
          /\ files[p] = BatchData(exchange, jobs[j].symbol)

\* Task j is in the failure list main prints.
InFailureList(j) ==
    /\ outcome.listed
    /\ \E i \in 1..Len(outcome.failures) :
          outcome.failures[i][1] = jobs[j].symbol /\ outcome.failures[i][2] = jobs[j].interval

\* What the claim says of a batch of several tasks that has ended.
Confined ==
    /\ \A j \in DOMAIN jobs \ FailingJobs : SnapshotSaved(j)
    /\ (DOMAIN jobs \ FailingJobs # {}) => \A j \in FailingJobs : InFailureList(j)
    /\ outcome.exit_code = 1 <=> (DOMAIN jobs \ FailingJobs = {})

\* C29: in a batch of several tasks that has ended, every task whose
\* upstream answered well has saved its snapshot, every failed task is in
\* the failure list, and the exit code is 1 exactly when no task succeeded,
\* whatever made the failed tasks fail.
C29_FailureConfined ==
    (outcome.phase = "exited" /\ Len(jobs) > 1) => Confined

\* The same for the failures _run_full_task catches (an error status, an
\* API error, a field that is no number, an empty kline list): it holds.
C29_CaughtFailureConfined ==
    (/\ outcome.phase = "exited" /\ Len(jobs) > 1
     /\ \A j \in DOMAIN jobs : CollectRaises(exchange, jobs[j].answer) \in CaughtByTask \cup {"none"})
        => Confined

\* An OKX batch where one task met "data": [] and the other answered well:
\* the process exited 1 with no failure list, and the good task was
\* cancelled before it saved.
C29_EmptyDataEndsTheBatch ==
    /\ outcome.phase = "exited"
    /\ exchange = "okx"
    /\ Len(jobs) = 2
    /\ jobs[1].answer = "empty_data" /\ jobs[1].state = "raised"
    /\ jobs[2].answer = "ok" /\ jobs[2].state = "cancelled"
    /\ outcome.exit_code = 1
    /\ ~outcome.listed
    /\ files = <<>>

\* A batch with one caught failure and one success: listed, exit code 0.
C29_CaughtFailureListed ==
    /\ outcome.phase = "exited"
    /\ Len(jobs) = 2
    /\ jobs[1].answer = "http_error" /\ InFailureList(1)
    /\ SnapshotSaved(2)
    /\ outcome.exit_code = 0

====
